---- MODULE Spec2Model ----
(***************************************************************************)
(* Brew dashboard: the temperature engine of the public read endpoint      *)
(* (src/api/public.js and its later draft src/unnamed/part_001), the admin *)
(* save endpoint (src/api/save.js) and the record sanitizer                *)
(* (src/api/_schema.js).                                                   *)
(*                                                                         *)
(* Units.  Time is in milliseconds since the epoch, as Date.now() and      *)
(* Date.prototype.getTime() give it.  Temperatures are fixed-point         *)
(* integers in micro-degrees (1 degree = 1000000), so that the per-bucket  *)
(* ceilings of part_001 (2.0 degrees/day over a 1 s bucket = 23 micro-     *)
(* degrees) are representable.  Text that is hashed is a sequence of       *)
(* character codes.  A 32-bit unsigned value is a pair <<hi, lo>> of       *)
(* 16-bit halves.                                                          *)
(***************************************************************************)
EXTENDS Integers, Sequences, FiniteSets, TLC

\* ---------------------------------------------------------------- bounds
\* The clock runs over 0 .. MaxHalfSteps half-buckets.
MaxHalfSteps == 10
\* The number of admin writes in one behaviour.
MaxSaves == 2
\* The days the clock runs over in the scenario of a twenty-day batch.
ScenarioDays == 21
\* public requests in flight at the same time
NumReqs == 2

\* ------------------------------------------------------ program constants
TENTH == 100000

COOL_DAYS == 10
\* the milliseconds of a day
DAY_MS == 86400000
COOL_WINDOW_MS == COOL_DAYS * DAY_MS

SETPOINT_MIN == 18200000
SETPOINT_MAX == 19900000
FINAL_MIN == 4000000
FINAL_MAX == 5000000

\* TEMP_BUCKET_MS is 60 * 1000 in public.js and 1000 in part_001.
TEMP_BUCKET_MS(v) == IF v = "public" THEN 60 * 1000 ELSE 1000

MAX_DROP_PER_DAY == 2000000
MAX_RISE_PER_DAY == 400000

NaN == -1

Variants == {"public", "part_001"}

\* ------------------------------------------------------ small arithmetic
Min(a, b) == IF a < b THEN a ELSE b
Max(a, b) == IF a > b THEN a ELSE b

\* clamp(x, a, b) = Math.max(a, Math.min(b, x)); note the result is a when a > b
clamp(x, a, b) == Max(a, Min(b, x))

\* round1(x) = Math.round(x * 10) / 10, here in micro-degrees
round1(x) == ((x + (TENTH \div 2)) \div TENTH) * TENTH

\* fmtTemp(x): the one-decimal text, represented by its number of tenths
fmtTemp(x) == round1(x) \div TENTH

isFinite(x) == x # NaN

\* ------------------------------------------------- 32-bit hash and PRNG
RECURSIVE XorBits(_, _, _)
XorBits(a, b, n) ==
  IF n = 0 THEN 0
  ELSE (((a % 2) + (b % 2)) % 2) + 2 * XorBits(a \div 2, b \div 2, n - 1)

\* a ^ b for bytes, tabulated once
Xor8 == [ a \in 0 .. 255 |-> [ b \in 0 .. 255 |-> XorBits(a, b, 8) ] ]

Xor16(a, b) == (Xor8[a \div 256][b \div 256] * 256) + Xor8[a % 256][b % 256]

Xor32(x, y) == << Xor16(x[1], y[1]), Xor16(x[2], y[2]) >>

\* x << 13, x >>> 17 and x << 5 on 32 bits
Shl13(x) == << ((x[1] % 8) * 8192) + (x[2] \div 8), (x[2] % 8) * 8192 >>
Shr17(x) == << 0, x[1] \div 2 >>
Shl5(x) == << ((x[1] % 2048) * 32) + (x[2] \div 2048), (x[2] % 2048) * 32 >>

\* Math.imul(h, 16777619), 16777619 = 2^24 + 403
Imul16777619(h) ==
  LET lo403 == h[2] * 403
      hi403 == h[1] * 403
  IN << (hi403 + (lo403 \div 65536) + ((h[2] % 256) * 256)) % 65536,
        lo403 % 65536 >>

\* h ^= str.charCodeAt(i); h = Math.imul(h, 16777619), for one character
hashChar(h, c) ==
  Imul16777619(<< h[1], ((h[2] \div 256) * 256) + Xor8[h[2] % 256][c] >>)

\* the loop of hash32 from character i on (the test on h1 only makes the
\* evaluation of h1 happen before the next round)
RECURSIVE hashFrom(_, _, _)
hashFrom(h, str, i) ==
  IF i > Len(str) THEN h
  ELSE LET h1 == hashChar(h, str[i])
       IN IF h1[1] < 0 THEN h1 ELSE hashFrom(h1, str, i + 1)

\* hash32(str), starting from 2166136261 = 0x811C9DC5
hash32(str) == hashFrom(<< 33052, 40389 >>, str, 1)

\* one call of the closure returned by rngFromSeed(seed): the xorshift32
\* state after the call; the value returned is that state / 2^32
rngFromSeed(seed) ==
  LET a == Xor32(seed, Shl13(seed))
      b == Xor32(a, Shr17(a))
  IN Xor32(b, Shl5(b))

\* Math.floor(rand() * n) for the first rand() of rngFromSeed(seed), n < 2^15
randIndex(seed, n) ==
  LET x == rngFromSeed(seed)
  IN ((x[1] * n) + ((x[2] * n) \div 65536)) \div 65536

\* ---------------------------------------------------------------- text
\* decimal digits of a natural number, as String(n) prints them
RECURSIVE Decimal(_)
Decimal(n) == IF n < 10 THEN << 48 + n >> ELSE Decimal(n \div 10) \o << 48 + (n % 10) >>

\* String(round1(x)): "18.4", and "18" when the tenth is zero
Round1Text(x) ==
  LET t == round1(x) \div TENTH
  IN IF t % 10 = 0 THEN Decimal(t \div 10)
     ELSE Decimal(t \div 10) \o << 46, 48 + (t % 10) >>

Bar == << 124 >>
\* process.env.DISPLAY_SALT || "brew", with DISPLAY_SALT unset
Salt == << 98, 114, 101, 119 >>


\* ------------------------------------------------- the texts of the model
\* tank ids are texts, held as their character codes
F1 == << 70, 49 >>
F2 == << 70, 50 >>

TankIds == { F1, F2 }

\* further ids, of record sets that hold several tanks
F10 == << 70, 49, 48 >>
KnownIds == TankIds \cup { F10 }

\* `${id}` in a seed text
idChars(id) == id

\* The date texts an operator enters in this model; "" is a missing date.
\* The first three fit the 1 s buckets of part_001, the next three the 60 s
\* buckets of public.js.
DateTexts ==
  { "", "soon", "1970-01-01T00:00:01Z", "1970-01-01T00:00:02Z", "1970-01-01T00:00:03.500Z",
    "1970-01-01T00:01:00Z", "1970-01-01T00:02:00Z", "1970-01-01T00:03:30Z",
    "1970-01-02T00:00:00Z", "1970-01-22T00:00:00Z" }

dateChars(s) ==
  CASE s = "" -> << >>
    [] s = "soon" -> << 115, 111, 111, 110 >>
    [] s = "1970-01-01T00:00:01Z" ->
         << 49, 57, 55, 48, 45, 48, 49, 45, 48, 49, 84, 48, 48, 58, 48, 48, 58, 48, 49,
            90 >>
    [] s = "1970-01-01T00:00:02Z" ->
         << 49, 57, 55, 48, 45, 48, 49, 45, 48, 49, 84, 48, 48, 58, 48, 48, 58, 48, 50,
            90 >>
    [] s = "1970-01-01T00:00:03.500Z" ->
         << 49, 57, 55, 48, 45, 48, 49, 45, 48, 49, 84, 48, 48, 58, 48, 48, 58, 48, 51, 46,
            53, 48, 48, 90 >>
    [] s = "1970-01-01T00:01:00Z" ->
         << 49, 57, 55, 48, 45, 48, 49, 45, 48, 49, 84, 48, 48, 58, 48, 49, 58, 48, 48,
            90 >>
    [] s = "1970-01-01T00:02:00Z" ->
         << 49, 57, 55, 48, 45, 48, 49, 45, 48, 49, 84, 48, 48, 58, 48, 50, 58, 48, 48,
            90 >>
    [] s = "1970-01-01T00:03:30Z" ->
         << 49, 57, 55, 48, 45, 48, 49, 45, 48, 49, 84, 48, 48, 58, 48, 51, 58, 51, 48,
            90 >>
    [] s = "1970-01-02T00:00:00Z" ->
         << 49, 57, 55, 48, 45, 48, 49, 45, 48, 50, 84, 48, 48, 58, 48, 48, 58, 48, 48,
            90 >>
    [] s = "1970-01-22T00:00:00Z" ->
         << 49, 57, 55, 48, 45, 48, 49, 45, 50, 50, 84, 48, 48, 58, 48, 48, 58, 48, 48,
            90 >>

\* new Date(s).getTime(): milliseconds since the epoch, NaN for an invalid date
dateMs(s) ==
  CASE s = "" -> NaN
    [] s = "soon" -> NaN
    [] s = "1970-01-01T00:00:01Z" -> 1000
    [] s = "1970-01-01T00:00:02Z" -> 2000
    [] s = "1970-01-01T00:00:03.500Z" -> 3500
    [] s = "1970-01-01T00:01:00Z" -> 60000
    [] s = "1970-01-01T00:02:00Z" -> 120000
    [] s = "1970-01-01T00:03:30Z" -> 210000
    [] s = "1970-01-02T00:00:00Z" -> DAY_MS
    [] s = "1970-01-22T00:00:00Z" -> 21 * DAY_MS

\* The manual temperature texts of this model.
TempTexts == { "", "30" }

NoNumber == -1

\* parseTempNumber(v): null for "", else Number() of the trimmed text without
\* its unit suffix, and null again when that is NaN ("18.5\\u2103" stands for
\* 18.5 followed by the degree-Celsius sign U+2103)
parseTempNumber(v) ==
  CASE v = "" -> NoNumber
    [] v = "30" -> 30000000
    [] v = "10" -> 10000000
    [] v = "18.5" -> 18500000
    [] v = "18.5\\u2103" -> 18500000
    [] v = "-5" -> 0 - 5000000
    [] v = "abc" -> NoNumber

\* ------------------------------------------------- values of JSON.parse
\* A JavaScript value as JSON.parse gives it (and undefined, the value of a
\* missing property).  The entries of an object are in Object.entries order
\* and carry distinct keys.  The keys of a record set are sequences of
\* character codes, the keys of a row are field names.
Undefined == [ t |-> "undefined" ]
Null == [ t |-> "null" ]
Bool(b) == [ t |-> "boolean", b |-> b ]
Num(n) == [ t |-> "number", n |-> n ]
Str(s) == [ t |-> "string", s |-> s ]
Arr(items) == [ t |-> "array", items |-> items ]
Obj(entries) == [ t |-> "object", entries |-> entries ]

\* !!v
truthy(v) ==
  CASE v.t \in { "undefined", "null" } -> FALSE
    [] v.t = "boolean" -> v.b
    [] v.t = "number" -> v.n # 0
    [] v.t = "string" -> v.s # ""
    [] OTHER -> TRUE

\* v[name] for one of the field names of a row: an own property of an
\* object, undefined on anything else
prop(v, name) ==
  IF v.t = "object" /\ \E i \in 1 .. Len(v.entries) : v.entries[i][1] = name
  THEN v.entries[CHOOSE i \in 1 .. Len(v.entries) : v.entries[i][1] = name][2]
  ELSE Undefined

\* String(v) raises a TypeError: an object whose own toString property (never
\* callable in parsed JSON) hides Object.prototype.toString cannot be converted
\* to a primitive, and neither can an array that holds one
RECURSIVE cannotConvert(_)
cannotConvert(v) ==
  \/ v.t = "object" /\ \E i \in 1 .. Len(v.entries) : v.entries[i][1] = "toString"
  \/ v.t = "array" /\ \E i \in 1 .. Len(v.items) : cannotConvert(v.items[i])

\* String(v), for a v it can convert; an array is its elements joined by ","
RECURSIVE toText(_)
RECURSIVE joinFrom(_, _)
joinFrom(items, i) ==
  IF i > Len(items) THEN ""
  ELSE (IF i > 1 THEN "," ELSE "")
       \o (IF items[i].t \in { "undefined", "null" } THEN "" ELSE toText(items[i]))
       \o joinFrom(items, i + 1)

toText(v) ==
  CASE v.t = "string" -> v.s
    [] v.t = "number" -> ToString(v.n)
    [] v.t = "boolean" -> (IF v.b THEN "true" ELSE "false")
    [] v.t = "array" -> joinFrom(v.items, 1)
    [] v.t = "object" -> "[object Object]"
    [] OTHER -> v.t

\* ------------------------------------------------------------ _schema.js
safeStr(v, fallback) == IF v.t \in { "undefined", "null" } THEN fallback ELSE toText(v)

\* the fields normalizeRow passes through safeStr
StrFields == { "beer", "style", "abv", "ibu", "capacity", "temp", "start", "end", "status" }

\* normalizeRow(row) raises instead of returning
normalizeRowThrows(row) ==
  truthy(row) /\ \E f \in StrFields : cannotConvert(prop(row, f))

\* normalizeRow(row): every field defaulted and coerced
normalizeRow(row) ==
  LET r == IF truthy(row) THEN row ELSE Obj(<< >>)
  IN [ show |-> truthy(prop(r, "show")),
       beer |-> safeStr(prop(r, "beer"), ""),
       style |-> safeStr(prop(r, "style"), ""),
       abv |-> safeStr(prop(r, "abv"), ""),
       ibu |-> safeStr(prop(r, "ibu"), ""),
       capacity |-> safeStr(prop(r, "capacity"), "150L"),
       temp |-> safeStr(prop(r, "temp"), ""),
       start |-> safeStr(prop(r, "start"), ""),
       end |-> safeStr(prop(r, "end"), ""),
       status |-> safeStr(prop(r, "status"), "auto"),
       limited |-> truthy(prop(r, "limited")) ]

MAX_TANKS == 300

\* /^F\d+$/i.test(id)
isTankKey(k) ==
  /\ Len(k) >= 2
  /\ k[1] \in { 70, 102 }
  /\ \A i \in 2 .. Len(k) : k[i] \in 48 .. 57

\* id.toUpperCase(), on ASCII text
RECURSIVE toUpperCase(_)
toUpperCase(k) ==
  IF k = << >> THEN << >>
  ELSE << (IF Head(k) \in 97 .. 122 THEN Head(k) - 32 ELSE Head(k)) >> \o toUpperCase(Tail(k))

\* Object.entries(input), input = obj && typeof obj === "object" ? obj : {};
\* the entries of an array are its elements under the keys "0", "1", ...
inputEntries(obj) ==
  IF obj.t = "object" THEN obj.entries
  ELSE IF obj.t = "array" THEN [ i \in 1 .. Len(obj.items) |-> << Decimal(i - 1), obj.items[i] >> ]
  ELSE << >>

\* the state of the loop of sanitizeState before its first iteration: count
\* entries accepted, out the mapping built; done after a break or an
\* exception, threw after an exception
sanitizeStart == [ count |-> 0, out |-> << >>, threw |-> FALSE, done |-> FALSE ]

\* one iteration, were the accepted key stored as it was written
sanitizeStepRawKeys(entry, st) ==
  IF st.count >= MAX_TANKS THEN [ st EXCEPT !.done = TRUE ]
  ELSE IF ~isTankKey(entry[1]) THEN st
  ELSE IF normalizeRowThrows(entry[2]) THEN [ st EXCEPT !.threw = TRUE, !.done = TRUE ]
  ELSE [ st EXCEPT !.out = (entry[1] :> normalizeRow(entry[2])) @@ st.out,
                   !.count = st.count + 1 ]

\* one iteration, were the test of the cap "count > MAX_TANKS"
sanitizeStepLateBreak(entry, st) ==
  IF st.count > MAX_TANKS THEN [ st EXCEPT !.done = TRUE ]
  ELSE IF ~isTankKey(entry[1]) THEN st
  ELSE IF normalizeRowThrows(entry[2]) THEN [ st EXCEPT !.threw = TRUE, !.done = TRUE ]
  ELSE [ st EXCEPT !.out = (toUpperCase(entry[1]) :> normalizeRow(entry[2])) @@ st.out,
                   !.count = st.count + 1 ]

\* one iteration of the loop, for the entry [id, row]:
\*   if (count >= MAX_TANKS) break;
\*   if (!/^F\d+$/i.test(id)) continue;
\*   out[id.toUpperCase()] = normalizeRow(row); count++;
sanitizeStep(entry, st) ==
  IF st.count >= MAX_TANKS THEN [ st EXCEPT !.done = TRUE ]
  ELSE IF ~isTankKey(entry[1]) THEN st
  ELSE IF normalizeRowThrows(entry[2]) THEN [ st EXCEPT !.threw = TRUE, !.done = TRUE ]
  ELSE [ st EXCEPT !.out = (toUpperCase(entry[1]) :> normalizeRow(entry[2])) @@ st.out,
                   !.count = st.count + 1 ]

\* the iterations for the entries lo .. hi in order, from the loop state st:
\* those of the first half, then those of the second half
RECURSIVE sanitizeLoop(_, _, _, _)
sanitizeLoop(entries, lo, hi, st) ==
  IF lo > hi \/ st.done THEN st
  ELSE IF lo = hi THEN sanitizeStep(entries[lo], st)
  ELSE sanitizeLoop(entries, ((lo + hi) \div 2) + 1, hi,
                    sanitizeLoop(entries, lo, (lo + hi) \div 2, st))

\* the loop state sanitizeState(obj) ends in
sanitizeEnd(obj) ==
  sanitizeLoop(inputEntries(obj), 1, Len(inputEntries(obj)), sanitizeStart)

\* sanitizeState(obj) raises instead of returning
sanitizeThrows(obj) == sanitizeEnd(obj).threw

\* sanitizeState(obj), when it returns: a mapping from tank id to record
sanitizeState(obj) == sanitizeEnd(obj).out

\* ------------------------------------------------------- stable targets
\* process.env.DISPLAY_SALT || "brew", for the values of DISPLAY_SALT of this
\* model: "" (unset or empty) and "pale"
SaltTexts == { "", "pale" }
saltOf(env) == IF env = "" THEN Salt ELSE << 112, 97, 108, 101 >>

\* makeStableSetpoint(id, startStr) as the source computes it, salt being
\* process.env.DISPLAY_SALT || "brew"
stableSetpointWith(salt, id, startStr) ==
  LET seed == hash32(salt \o Bar \o << 115, 112 >> \o Bar \o idChars(id) \o Bar
                     \o dateChars(startStr))
      steps == (SETPOINT_MAX - SETPOINT_MIN) \div TENTH
      idx == randIndex(seed, steps + 1)
      t == SETPOINT_MIN + (idx * TENTH)
  IN clamp(round1(t), SETPOINT_MIN, SETPOINT_MAX)

\* makeStableFinal(id, endStr) as the source computes it
stableFinalWith(salt, id, endStr) ==
  LET seed == hash32(salt \o Bar \o << 102, 105, 110, 97, 108 >> \o Bar \o idChars(id) \o Bar
                     \o dateChars(endStr))
      steps == (FINAL_MAX - FINAL_MIN) \div TENTH
      idx == randIndex(seed, steps + 1)
      t == FINAL_MIN + (idx * TENTH)
  IN clamp(round1(t), FINAL_MIN, FINAL_MAX)

\* with DISPLAY_SALT unset
stableSetpoint(id, startStr) == stableSetpointWith(Salt, id, startStr)
stableFinal(id, endStr) == stableFinalWith(Salt, id, endStr)

\* both are pure, so their values over the texts of the model are tabulated once
setpointTable == [ id \in KnownIds |-> [ s \in DateTexts |-> stableSetpoint(id, s) ] ]
finalTable == [ id \in KnownIds |-> [ s \in DateTexts |-> stableFinal(id, s) ] ]

makeStableSetpoint(id, startStr) == setpointTable[id][startStr]
makeStableFinal(id, endStr) == finalTable[id][endStr]

\* the hash state of hash32 after the constant head of a seed text,
\* `${salt}|step|${id}|` in public.js and `${salt}|temp|${id}|` in part_001
stepSeedHead ==
  [ id \in KnownIds |->
      hash32(Salt \o Bar \o << 115, 116, 101, 112 >> \o Bar \o idChars(id) \o Bar) ]
tempSeedHead ==
  [ id \in KnownIds |->
      hash32(Salt \o Bar \o << 116, 101, 109, 112 >> \o Bar \o idChars(id) \o Bar) ]

\* ---------------------------------------------------------- target curve
\* (1 - cos(pi * t)) / 2 in ten-thousandths, at t = 0, 0.01, ..., 1
EaseTable ==
  << 0, 2, 10, 22, 39, 62, 89, 120, 157, 199, 245, 296, 351, 411, 476, 545, 618, 696, 778,
     865, 955, 1049, 1147, 1249, 1355, 1464, 1577, 1693, 1813, 1935, 2061, 2190, 2321, 2455,
     2591, 2730, 2871, 3014, 3159, 3306, 3455, 3605, 3757, 3909, 4063, 4218, 4373, 4529,
     4686, 4843, 5000, 5157, 5314, 5471, 5627, 5782, 5937, 6091, 6243, 6395, 6545, 6694,
     6841, 6986, 7129, 7270, 7409, 7545, 7679, 7810, 7939, 8065, 8187, 8307, 8423, 8536,
     8645, 8751, 8853, 8951, 9045, 9135, 9222, 9304, 9382, 9455, 9524, 9589, 9649, 9704,
     9755, 9801, 9843, 9880, 9911, 9938, 9961, 9978, 9990, 9998, 10000 >>

\* t01 = (nowMs - coolStartMs) / denom in thousandths, for nowMs >= coolStartMs;
\* anything above 1 is reported as 1000 (cosineEase01 clamps it anyway)
t01Of(nowMs, coolStartMs, denom) ==
  LET a == nowMs - coolStartMs
  IN IF a >= denom THEN 1000
     ELSE IF denom > 2000000 THEN ((a \div 1000) * 1000) \div (denom \div 1000)
     ELSE (a * 1000) \div denom

\* cosineEase01(t01), t01 in thousandths, result in ten-thousandths
cosineEase01(t01) ==
  LET t == clamp(t01, 0, 1000)
      i == t \div 10
      f == t % 10
  IN IF f = 0 THEN EaseTable[i + 1]
     ELSE EaseTable[i + 1] + (((EaseTable[i + 2] - EaseTable[i + 1]) * f) \div 10)

\* target = setpoint + (finalT - setpoint) * k
targetOf(setpoint, finalT, k) == setpoint - ((((setpoint - finalT) \div 100) * k) \div 100)


\* ------------------------------------------- what both drafts derive first
\* the setpoint without the clamp of the manual temperature
setpointOfUnclamped(id, row) ==
  LET backendTemp == parseTempNumber(row.temp)
  IN IF backendTemp # NoNumber THEN backendTemp
     ELSE makeStableSetpoint(id, safeStr(Str(row.start), ""))

\* setpoint: the manual temperature clamped, else the stable one
setpointOf(id, row) ==
  LET backendTemp == parseTempNumber(row.temp)
  IN IF backendTemp # NoNumber THEN clamp(backendTemp, SETPOINT_MIN, SETPOINT_MAX)
     ELSE makeStableSetpoint(id, safeStr(Str(row.start), ""))

finalOf(id, row) == makeStableFinal(id, safeStr(Str(row.end), ""))

\* the end read as 0 when it does not parse
endMsOfZero(row) ==
  IF isFinite(dateMs(safeStr(Str(row.end), ""))) THEN dateMs(safeStr(Str(row.end), "")) ELSE 0

endMsOf(row) == dateMs(safeStr(Str(row.end), ""))

\* the start of cooling without the "not before start" part
coolStartOfNoStart(row) == endMsOf(row) - COOL_WINDOW_MS

\* coolStartMs = max(endMs - COOL_WINDOW_MS, start valid ? startMs : endMs - COOL_WINDOW_MS)
coolStartOf(row) ==
  LET startMs == dateMs(safeStr(Str(row.start), ""))
      endMs == endMsOf(row)
  IN Max(endMs - COOL_WINDOW_MS,
         IF isFinite(startMs) THEN startMs ELSE endMs - COOL_WINDOW_MS)

\* target of the cooling curve at nowMs
curveTarget(id, row, nowMs) ==
  LET endMs == endMsOf(row)
      coolStartMs == coolStartOf(row)
      denom == Max(1, endMs - coolStartMs)
      k == cosineEase01(t01Of(nowMs, coolStartMs, denom))
  IN targetOf(setpointOf(id, row), finalOf(id, row), k)

\* --------------------------------------------------- public.js: one step
\* the pool the step is drawn from, by gap = prev - target
stepPool(gap) ==
  IF gap > 6 * TENTH THEN << -3 * TENTH, -2 * TENTH, -2 * TENTH, -1 * TENTH, -3 * TENTH >>
  ELSE IF gap > 3 * TENTH THEN << -2 * TENTH, -2 * TENTH, -1 * TENTH, -1 * TENTH, 0 >>
  ELSE IF gap > 1 * TENTH THEN << -2 * TENTH, -1 * TENTH, -1 * TENTH, 0, TENTH >>
  ELSE << -1 * TENTH, 0, 0, TENTH, -1 * TENTH >>

\* public.js lines 244-288: the cur of a new bucket
nextCur(id, nowMs, bucket, prev, target, finalT, endMs) ==
  LET upperByTarget == target + TENTH
      lowerByTarget == target - (3 * TENTH)
      upperByStep == prev + TENTH
      lowerByStep == prev - (3 * TENTH)
      upper == Min(upperByTarget, upperByStep)
      lower == Max(lowerByTarget, lowerByStep)
      seed == hashFrom(stepSeedHead[id],
                       Decimal(bucket) \o Bar \o Round1Text(prev) \o Bar
                       \o Round1Text(target), 1)
      pool == stepPool(prev - target)
      step == pool[randIndex(seed, Len(pool)) + 1]
      next1 == clamp(prev + step, lower, upper)
      next2 == clamp(next1, FINAL_MIN, SETPOINT_MAX)
  IN IF nowMs >= endMs THEN Min(next2, finalT) ELSE next2

\* public.js lines 186-294, computeTempForTank once the record is read: the
\* end, the setpoint, the final temperature, the start of cooling and the
\* target of the curve at nowMs are those of the row.  got is what
\* getTempState returned: << >> for null, << st >> for a stored state.  The
\* result carries the texts of the answer and puts, the states handed to
\* setTempState, in order.
tempForTank(id, nowMs, got, endMs, setpoint, finalT, coolStartMs, target) ==
  LET isCooling == nowMs >= coolStartMs
      badgeCN == IF isCooling THEN "cooling-badge" ELSE "fermenting-badge"
      statusOut == IF isCooling THEN "ready" ELSE "fermenting"
      bucket == nowMs \div TEMP_BUCKET_MS("public")
  IN IF ~isFinite(endMs) THEN
       [ tempText |-> fmtTemp(setpoint), badgeCN |-> "fermenting-badge",
         statusOut |-> "fermenting", puts |-> << >> ]
     ELSE IF ~isCooling THEN
       [ tempText |-> fmtTemp(setpoint), badgeCN |-> badgeCN, statusOut |-> statusOut,
         puts |-> << >> ]
     ELSE IF got = << >> THEN
       [ tempText |-> fmtTemp(setpoint), badgeCN |-> badgeCN, statusOut |-> statusOut,
         puts |-> << [ setpoint |-> setpoint, finalT |-> finalT, cur |-> setpoint,
                       lastBucket |-> bucket ] >> ]
     ELSE IF got[1].lastBucket = bucket THEN
       IF nowMs >= endMs THEN
         [ tempText |-> fmtTemp(Min(got[1].cur, finalT)), badgeCN |-> badgeCN,
           statusOut |-> statusOut,
           puts |-> << [ got[1] EXCEPT !.setpoint = setpoint, !.finalT = finalT,
                                       !.cur = Min(got[1].cur, finalT) ] >> ]
       ELSE
         [ tempText |-> fmtTemp(got[1].cur), badgeCN |-> badgeCN,
           statusOut |-> statusOut, puts |-> << >> ]
     ELSE
       LET next == nextCur(id, nowMs, bucket, got[1].cur, target, finalT, endMs)
       IN [ tempText |-> fmtTemp(next), badgeCN |-> badgeCN, statusOut |-> statusOut,
            puts |-> << [ got[1] EXCEPT !.setpoint = setpoint, !.finalT = finalT,
                                        !.lastBucket = bucket, !.cur = next ] >> ]

\* computeTempForTank of public.js
computeTempForTank(id, row, nowMs, got) ==
  tempForTank(id, nowMs, got, endMsOf(row), setpointOf(id, row), finalOf(id, row),
              coolStartOf(row), curveTarget(id, row, nowMs))

\* ---------------------------------------------------- part_001: one step
\* maxDown = min(0.3, MAX_DROP_PER_DAY * TEMP_BUCKET_MS / 86400000)
maxDown == Min(3 * TENTH, (MAX_DROP_PER_DAY * TEMP_BUCKET_MS("part_001")) \div 86400000)
\* maxUp = min(0.1, MAX_RISE_PER_DAY * TEMP_BUCKET_MS / 86400000)
maxUp == Min(TENTH, (MAX_RISE_PER_DAY * TEMP_BUCKET_MS("part_001")) \div 86400000)
\* noiseAmp = min(0.03, max(0.005, maxDown * 0.6))
noiseAmp == Min(30000, Max(5000, (maxDown * 6) \div 10))

\* noise = (rand() - 0.5) * 2 * noiseAmp, from the upper 16 bits of rand()
noiseOf(seed) ==
  LET x == rngFromSeed(seed)
  IN ((x[1] - 32768) * noiseAmp) \div 32768

\* part_001 lines 279-325: the cur of a new bucket
nextCurRated(id, bucket, prev, target, setpoint, finalT) ==
  LET seed == hashFrom(tempSeedHead[id],
                       Decimal(bucket) \o Bar \o Round1Text(prev) \o Bar
                       \o Round1Text(target) \o Bar \o Round1Text(setpoint) \o Bar
                       \o Round1Text(finalT), 1)
      deltaToward == clamp(target - prev, 0 - maxDown, maxUp)
      noise == noiseOf(seed)
      next1 == clamp(prev + deltaToward + noise, prev - maxDown, prev + maxUp)
      next2 == Min(next1, target + TENTH)
      next3 == Max(next2, target - (3 * TENTH))
  IN clamp(next3, FINAL_MIN, SETPOINT_MAX)

\* part_001 lines 186-331, computeTempForTank once the record is read
tempForTankRated(id, nowMs, got, endMs, setpoint, finalT, coolStartMs, target) ==
  LET inCooling == nowMs >= coolStartMs
      isPastEnd == nowMs >= endMs
      badgeCN == IF inCooling
                 THEN (IF isPastEnd THEN "opening-soon-badge" ELSE "cooling-badge")
                 ELSE "fermenting-badge"
      statusOut == IF inCooling THEN "ready" ELSE "fermenting"
      bucket == nowMs \div TEMP_BUCKET_MS("part_001")
      fresh == [ setpoint |-> setpoint, finalT |-> finalT, cur |-> setpoint,
                 lastBucket |-> bucket, endMs |-> endMs, coolStartMs |-> coolStartMs ]
      created == IF got = << >> THEN << fresh >> ELSE << >>
      st0 == IF got = << >> THEN fresh ELSE got[1]
  IN IF ~isFinite(endMs) THEN
       [ tempText |-> fmtTemp(setpoint), badgeCN |-> "fermenting-badge",
         statusOut |-> "fermenting", puts |-> << >> ]
     ELSE IF ~inCooling THEN
       [ tempText |-> fmtTemp(setpoint), badgeCN |-> badgeCN, statusOut |-> statusOut,
         puts |-> << fresh >> ]
     ELSE IF isPastEnd THEN
       [ tempText |-> fmtTemp(finalT), badgeCN |-> badgeCN, statusOut |-> statusOut,
         puts |-> created
                  \o << [ st0 EXCEPT !.setpoint = setpoint, !.finalT = finalT,
                                     !.endMs = endMs, !.coolStartMs = coolStartMs,
                                     !.cur = finalT, !.lastBucket = bucket ] >> ]
     ELSE IF st0.lastBucket = bucket THEN
       [ tempText |-> fmtTemp(st0.cur), badgeCN |-> badgeCN, statusOut |-> statusOut,
         puts |-> created ]
     ELSE
       LET next == nextCurRated(id, bucket, st0.cur, target, setpoint, finalT)
       IN [ tempText |-> fmtTemp(next), badgeCN |-> badgeCN, statusOut |-> statusOut,
            puts |-> created
                     \o << [ st0 EXCEPT !.setpoint = setpoint, !.finalT = finalT,
                                        !.endMs = endMs, !.coolStartMs = coolStartMs,
                                        !.lastBucket = bucket, !.cur = next ] >> ]

\* computeTempForTank of part_001
computeTempForTankRated(id, row, nowMs, got) ==
  tempForTankRated(id, nowMs, got, endMsOf(row), setpointOf(id, row), finalOf(id, row),
                   coolStartOf(row), curveTarget(id, row, nowMs))


\* ------------------------------------------------------------ the system
VARIABLES
  variant,    \* which draft of /api/public.js is deployed
  now,        \* Date.now()
  records,    \* the value under KEY: << >> when unset, << obj >> when set
  tempState,  \* the hash under TEMP_STATE_KEY: tank id -> state
  resp,       \* the answer to the latest request
  saves,      \* the number of admin writes so far
  reqs,       \* the public requests in flight: what each holds between awaits
  calls,      \* two applications of the functions under study: arguments, results
  processEnv, \* process.env: ADMIN_WRITE_PASSWORD ("" when unset), REDIS_URL set or not
  tickState   \* the value load.js keeps under TEMP_KEY: << >> when unset, << st >>

vars == << variant, now, records, tempState, resp, saves, reqs, calls, processEnv, tickState >>

\* the deployment with both settings in place
Configured == [ secret |-> "s3cret", redisUrl |-> TRUE ]

\* no application has been made
noCalls == [ first |-> [ fn |-> "none" ], second |-> [ fn |-> "none" ] ]

\* the public requests that can be in flight together
Reqs == 1 .. NumReqs

\* a request that has not arrived yet
idleReq == [ pc |-> "idle" ]

halfBucket == TEMP_BUCKET_MS(variant) \div 2

\* the date texts on the scale of the deployed draft's bucket
StartTexts == IF variant = "public" THEN { "", "1970-01-01T00:01:00Z" }
              ELSE { "", "1970-01-01T00:00:01Z" }
EndTexts == IF variant = "public"
            THEN { "", "1970-01-01T00:02:00Z", "1970-01-01T00:03:30Z" }
            ELSE { "", "1970-01-01T00:00:02Z", "1970-01-01T00:00:03.500Z" }
StatusTexts == { "auto", "fermenting" }

\* the rows an operator can write for a tank
Rows == [ show : { TRUE }, temp : TempTexts, start : StartTexts, end : EndTexts,
          status : StatusTexts ]

\* Number(m[1]) for m = /^F(\d+)$/i.exec(id): the digits of a tank id as a number
RECURSIVE digitsValue(_, _)
digitsValue(k, acc) ==
  IF k = << >> THEN acc ELSE digitsValue(Tail(k), (acc * 10) + (Head(k) - 48))

tankNoFromId(id) == IF isTankKey(id) THEN digitsValue(Tail(id), 0) ELSE 0

\* entries sorted by tankNoFromId, as a sequence of ids (ids of equal number
\* next to each other)
RECURSIVE sortedIds(_)
sortedIds(S) ==
  IF S = {} THEN << >>
  ELSE LET m == CHOOSE x \in S : \A y \in S : tankNoFromId(x) <= tankNoFromId(y)
       IN << m >> \o sortedIds(S \ {m})

\* sanitizeState(JSON.parse(val)), or nothing when KEY is unset
cleanedOf(recs) == IF recs = << >> THEN << >> ELSE sanitizeState(recs[1])

getTempState(id) == IF id \in DOMAIN tempState THEN << tempState[id] >> ELSE << >>

\* computeTempForTank, were a tank past its end reported as fermenting again
computePastEndFermenting(id, row, nowMs, got) ==
  LET res == IF variant = "public" THEN computeTempForTank(id, row, nowMs, got)
             ELSE computeTempForTankRated(id, row, nowMs, got)
  IN IF isFinite(endMsOf(row)) /\ nowMs > endMsOf(row)
     THEN [ res EXCEPT !.statusOut = "fermenting" ] ELSE res

compute(id, row, nowMs, got) ==
  IF variant = "public" THEN computeTempForTank(id, row, nowMs, got)
  ELSE computeTempForTankRated(id, row, nowMs, got)

Init ==
  /\ variant \in Variants
  /\ now = 0
  /\ records = << >>
  /\ tempState = << >>
  /\ resp = [ kind |-> "none" ]
  /\ saves = 0
  /\ processEnv = Configured
  /\ tickState = << >>
  /\ reqs = [ q \in Reqs |-> idleReq ]
  /\ calls = noCalls

\* time passes between two requests
Tick ==
  /\ now + halfBucket <= MaxHalfSteps * halfBucket
  /\ now' = now + halfBucket
  /\ UNCHANGED << processEnv, tickState, calls, variant, records, tempState, resp, saves, reqs >>

\* the JSON an operator posts for a row
rowJson(row) ==
  Obj(<< << "show", Bool(row.show) >>, << "temp", Str(row.temp) >>,
         << "start", Str(row.start) >>, << "end", Str(row.end) >>,
         << "status", Str(row.status) >> >>)

\* save.js: an authorized POST whose body parses, with a row of rows for the
\* tank; the body replaces the value under KEY and nothing else is written
SaveFrom(rows) ==
  /\ saves < MaxSaves
  /\ saves' = saves + 1
  /\ \E row \in rows :
       records' = << Obj(<< << F1, rowJson(row) >> >>) >>
  /\ resp' = [ kind |-> "save", status |-> 200 ]
  /\ UNCHANGED << processEnv, tickState, calls, variant, now, tempState, reqs >>

Save == SaveFrom(Rows)

\* the ids of all entries of cleaned, sorted: the handler without its filter
entriesOfUnfiltered(cleaned) == sortedIds(DOMAIN cleaned)

\* the ids of the visible entries of cleaned, sorted
entriesOf(cleaned) == sortedIds({ id \in DOMAIN cleaned : cleaned[id].show = TRUE })

\* the temperature state after the puts of res, the results for entries
stateAfter(entries, res) ==
  LET idx(id) == CHOOSE j \in 1 .. Len(entries) : entries[j] = id
      written == { entries[j] : j \in { i \in 1 .. Len(entries) : res[i].puts # << >> } }
  IN [ id \in (DOMAIN tempState) \cup written |->
         IF id \in written THEN res[idx(id)].puts[Len(res[idx(id)].puts)]
         ELSE tempState[id] ]

\* the fallback of the handler for the beer name (the four characters
\* U+FF08 U+672A U+547D U+540D U+FF09 are written here by their code points)
UNNAMED == "\\uFF08\\u672A\\u547D\\u540D\\uFF09"

\* The ABV texts of this model.
AbvTexts == { "", "5.2", "6%", "strong" }

\* toABV(v) for a text v: "--" for the empty text, the text itself when it
\* holds "%" or is no number, the number followed by "%" otherwise
toABV(v) ==
  CASE v = "" -> "--"
    [] v = "5.2" -> "5.2%"
    [] v = "6%" -> "6%"
    [] v = "strong" -> "strong"

\* the body of the answer; the rows of cleaned hold texts, never undefined
answerOf(nowMs, entries, cleaned, res) ==
  [ kind |-> "public", status |-> 200, server_time |-> nowMs,
    items |-> [ i \in 1 .. Len(entries) |->
                  [ id |-> entries[i], no |-> tankNoFromId(entries[i]),
                    beer |-> safeStr(Str(cleaned[entries[i]].beer), UNNAMED),
                    style |-> safeStr(Str(cleaned[entries[i]].style), "--"),
                    abv |-> toABV(safeStr(Str(cleaned[entries[i]].abv), "")),
                    temp |-> res[i].tempText,
                    status |-> res[i].statusOut, badgeCN |-> res[i].badgeCN ] ] ]

\* the results of computeTempForTank for the entries, in order
resultsFor(entries, cleaned, nowMs) ==
  [ i \in 1 .. Len(entries) |->
      compute(entries[i], cleaned[entries[i]], nowMs, getTempState(entries[i])) ]

\* sanitizeState raises on the stored record set
storedThrows == records # << >> /\ sanitizeThrows(records[1])

\* the handler of /api/public.js, from r.get(KEY) to the answer
PublicRead ==
  /\ ~storedThrows
  /\ \E cleaned \in { cleanedOf(records) } :
       \E entries \in { entriesOf(cleaned) } :
         \E res \in { resultsFor(entries, cleaned, now) } :
           /\ tempState' = stateAfter(entries, res)
           /\ resp' = answerOf(now, entries, cleaned, res)
  /\ UNCHANGED << processEnv, tickState, calls, variant, now, records, saves, reqs >>

Next == Tick \/ Save \/ PublicRead

Spec == Init /\ [][Next]_vars


\* ----------------------------------------- a record set of two tanks
\* the rows of a tank whose end may not parse
BadEndRows == [ show : { TRUE }, temp : TempTexts, start : { "" },
                end : { "soon", CHOOSE e \in EndTexts : e # "" }, status : { "auto" } ]

\* the rows of a tank whose end parses, shown or hidden
GoodEndRows == [ show : BOOLEAN, temp : { "" }, start : { "" },
                 end : { CHOOSE e \in EndTexts : e # "" }, status : { "auto" } ]

\* save.js: an authorized POST whose body is a record set of the tanks F1 and F2
SaveBatch ==
  /\ saves < MaxSaves
  /\ saves' = saves + 1
  /\ \E r1 \in BadEndRows, r2 \in GoodEndRows :
       records' = << Obj(<< << F1, rowJson(r1) >>, << F2, rowJson(r2) >> >>) >>
  /\ resp' = [ kind |-> "save", status |-> 200 ]
  /\ UNCHANGED << processEnv, tickState, calls, variant, now, tempState, reqs >>

NextBatch == Tick \/ SaveBatch \/ PublicRead

SpecBatch == Init /\ [][NextBatch]_vars


\* ------------------------------------- the scenario of a twenty-day batch
\* tank F1, start = T0, end = T0 + 20 days, no manual temp
ScenarioRow == [ show |-> TRUE, temp |-> "", start |-> "1970-01-02T00:00:00Z",
                 end |-> "1970-01-22T00:00:00Z", status |-> "auto" ]

SaveScenario == SaveFrom({ ScenarioRow })

\* a day passes
TickDay ==
  /\ now < dateMs(ScenarioRow.start) + (ScenarioDays * DAY_MS)
  /\ now' = now + DAY_MS
  /\ UNCHANGED << processEnv, tickState, calls, variant, records, tempState, resp, saves, reqs >>

InitScenario ==
  /\ variant \in Variants
  /\ now = dateMs(ScenarioRow.start)
  /\ records = << >>
  /\ tempState = << >>
  /\ resp = [ kind |-> "none" ]
  /\ saves = 0
  /\ processEnv = Configured
  /\ tickState = << >>
  /\ reqs = [ q \in Reqs |-> idleReq ]
  /\ calls = noCalls

NextScenario == TickDay \/ SaveScenario \/ PublicRead

SpecScenario == InitScenario /\ [][NextScenario]_vars


\* ------------------------------------------- the stable targets, applied
\* Any request of any process may apply makeStableSetpoint or makeStableFinal
\* at any time; calls keeps the arguments and the result of two applications,
\* with the clock and the persisted state of the moment.

\* the record written while the targets are applied
TargetRows == [ show : { TRUE }, temp : { "" }, start : { "" },
                end : { CHOOSE e \in EndTexts : e # "" }, status : { "auto" } ]

SaveTargets == SaveFrom(TargetRows)

\* the value fn returns
targetValue(fn, env, id, dateStr) ==
  IF fn = "makeStableSetpoint" THEN stableSetpointWith(saltOf(env), id, dateStr)
  ELSE stableFinalWith(saltOf(env), id, dateStr)

\* the value fn would return were its seed to take in the clock
targetValueClocked(fn, env, id, dateStr) ==
  IF fn = "makeStableSetpoint"
  THEN stableSetpointWith(saltOf(env) \o Decimal(now), id, dateStr)
  ELSE stableFinalWith(saltOf(env) \o Decimal(now), id, dateStr)

\* fn(id, dateStr) in a process whose DISPLAY_SALT is env
applyTarget(fn, env, id, dateStr) == targetValue(fn, env, id, dateStr)

\* one application, as calls keeps it
targetCall(fn, env, id, dateStr) ==
  [ fn |-> fn, env |-> env, id |-> id, date |-> dateStr, at |-> now,
    stored |-> (tempState # << >>), ret |-> applyTarget(fn, env, id, dateStr) ]

\* the date the targets are applied to
TargetDates == { "1970-01-01T00:02:00Z" }

CallFirst ==
  /\ calls.first.fn = "none"
  /\ \E fn \in { "makeStableSetpoint", "makeStableFinal" }, env \in SaltTexts,
        d \in TargetDates :
       calls' = [ calls EXCEPT !.first = targetCall(fn, env, F1, d) ]
  /\ UNCHANGED << processEnv, tickState, variant, now, records, tempState, resp, saves, reqs >>

\* the same application again, by another request or process
CallSecond ==
  /\ calls.first.fn # "none"
  /\ calls.second.fn = "none"
  /\ calls' = [ calls EXCEPT
                  !.second = targetCall(calls.first.fn, calls.first.env, calls.first.id,
                                        calls.first.date) ]
  /\ UNCHANGED << processEnv, tickState, variant, now, records, tempState, resp, saves, reqs >>

InitTargets ==
  /\ variant = "public"
  /\ now = 0
  /\ records = << >>
  /\ tempState = << >>
  /\ resp = [ kind |-> "none" ]
  /\ saves = 0
  /\ processEnv = Configured
  /\ tickState = << >>
  /\ reqs = [ q \in Reqs |-> idleReq ]
  /\ calls = noCalls

NextTargets == Tick \/ SaveTargets \/ PublicRead \/ CallFirst \/ CallSecond

SpecTargets == InitTargets /\ [][NextTargets]_vars

\* --------------------------------------- the targets of computeTempForTank
\* the manual temperature texts, the start and the end texts the targets of
\* computeTempForTank are computed for
ManualTexts == { "", "30", "10", "18.5", "18.5\\u2103", "-5", "abc" }
RangeDates == { "", "soon", "1970-01-01T00:02:00Z", "1970-01-22T00:00:00Z" }

\* computeTempForTank is about to derive the targets of a row
InitRange ==
  /\ variant \in Variants
  /\ now = 0
  /\ records = << >>
  /\ tempState = << >>
  /\ resp = [ kind |-> "none" ]
  /\ saves = 0
  /\ processEnv = Configured
  /\ tickState = << >>
  /\ reqs = [ q \in Reqs |-> idleReq ]
  /\ \E id \in TankIds, t \in ManualTexts, sd \in RangeDates, ed \in RangeDates :
       calls = [ first |-> [ fn |-> "computeTempForTank", id |-> id,
                             row |-> [ temp |-> t, start |-> sd, end |-> ed ] ],
                 second |-> [ fn |-> "none" ] ]

\* const setpoint = ...; const finalT = makeStableFinal(id, endStr);
DeriveTargets ==
  /\ calls.first.fn = "computeTempForTank"
  /\ calls.second.fn = "none"
  /\ calls' = [ calls EXCEPT
                  !.second = [ fn |-> "targets",
                               setpoint |-> setpointOf(calls.first.id, calls.first.row),
                               finalT |-> finalOf(calls.first.id, calls.first.row) ] ]
  /\ UNCHANGED << processEnv, tickState, variant, now, records, tempState, resp, saves, reqs >>

SpecRange == InitRange /\ [][DeriveTargets]_vars


\* ------------------------------------------------------ the admin surface
\* process.env.ADMIN_WRITE_PASSWORD is set, to "s3cret"; a request carries the
\* header x-admin-pass with one of these values ("" is no header at all)
AdminSecret == Configured.secret
PassHeaders == { "", "nope", "s3cret" }
Methods == { "GET", "POST" }

\* the bodies a save request carries, as text
BodyTexts == { "", "{bad", "null", "[1]", "5", "\"x\"", "{}", "{F1}", "{F1,f2}", "{F1:toString}" }

\* the rows of the bodies
PlainRow == Obj(<< << "show", Bool(TRUE) >>, << "beer", Str("IPA") >>,
                   << "end", Str("1970-01-01T00:02:00Z") >> >>)
OddRow == Obj(<< << "show", Bool(TRUE) >>,
                 << "beer", Obj(<< << "toString", Num(1) >> >>) >> >>)

\* JSON.parse(body || "{}"): << value >>, or << >> when it raises
parseBody(text) ==
  CASE text = "" -> << Obj(<< >>) >>
    [] text = "{bad" -> << >>
    [] text = "null" -> << Null >>
    [] text = "[1]" -> << Arr(<< Num(1) >>) >>
    [] text = "5" -> << Num(5) >>
    [] text = "\"x\"" -> << Str("x") >>
    [] text = "{}" -> << Obj(<< >>) >>
    [] text = "{F1}" -> << Obj(<< << F1, PlainRow >> >>) >>
    [] text = "{F1,f2}" -> << Obj(<< << F1, PlainRow >>, << << 102, 50 >>, PlainRow >> >>) >>
    [] text = "{F1:toString}" -> << Obj(<< << F1, OddRow >> >>) >>

\* pass && pass === process.env.ADMIN_WRITE_PASSWORD: the header is there and
\* equal to the configured secret (no header equals a secret that is unset)
passOk(pass) == pass # "" /\ pass = processEnv.secret

\* the deployed handler of save.js (its second draft): 405, then
\* requireAdminPass (500 when the secret is unset, 401 for a wrong header),
\* then 400 for a body JSON.parse rejects, then getRedis (500 when REDIS_URL
\* is unset), else r.set(KEY, JSON.stringify(obj || {})) and 200
saveStatus(method, pass, text) ==
  IF method # "POST" THEN 405
  ELSE IF processEnv.secret = "" THEN 500
  ELSE IF ~passOk(pass) THEN 401
  ELSE IF parseBody(text) = << >> THEN 400
  ELSE IF ~processEnv.redisUrl THEN 500
  ELSE 200

\* the first draft of save.js compares the header with the secret in place
saveStatusFirst(method, pass, text) ==
  IF method # "POST" THEN 405
  ELSE IF ~passOk(pass) THEN 401
  ELSE IF parseBody(text) = << >> THEN 400
  ELSE IF ~processEnv.redisUrl THEN 500
  ELSE 200

\* a save request answered with status: the store is written on 200 only
SaveWith(status, text) ==
  /\ resp' = [ kind |-> "save", status |-> status ]
  /\ IF status = 200
     THEN /\ saves < MaxSaves
          /\ saves' = saves + 1
          /\ records' = << IF truthy(parseBody(text)[1]) THEN parseBody(text)[1]
                           ELSE Obj(<< >>) >>
     ELSE UNCHANGED << records, saves >>
  /\ UNCHANGED << processEnv, tickState, calls, variant, now, tempState, reqs >>

SaveHttp(method, pass, text) == SaveWith(saveStatus(method, pass, text), text)

SaveHttpFirst(method, pass, text) == SaveWith(saveStatusFirst(method, pass, text), text)

\* the handler of auth.js: 405, then 401, else 200; it does not touch the store
authStatus(method, pass) ==
  IF method # "POST" THEN 405
  ELSE IF ~passOk(pass) THEN 401
  ELSE 200

AuthHttp(method, pass) ==
  /\ resp' = [ kind |-> "auth", status |-> authStatus(method, pass) ]
  /\ UNCHANGED << processEnv, tickState, calls, variant, now, records, tempState, saves,
                  reqs >>

\* load.js moves its own simulation once per tick of 5 s
TEMP_TICK_MS == 5000

\* the drafts of the admin read: src/api/load.js and the three of part_000
LoadDrafts == { "load.js", "part_000/1", "part_000/2", "part_000/3" }

\* the answer of an admin read: gets counts the reads of the store, data is
\* what the body carries of the stored record set (<< >> for none of it)
loadAnswer(draft, pass) ==
  IF draft \in { "part_000/1", "part_000/2" } /\ processEnv.secret = ""
    THEN [ kind |-> "load", status |-> 500, gets |-> 0, data |-> << >> ]
  ELSE IF draft # "load.js" /\ ~passOk(pass)
    THEN [ kind |-> "load", status |-> 401, gets |-> 0, data |-> << >> ]
  ELSE IF ~processEnv.redisUrl
    THEN [ kind |-> "load", status |-> 500, gets |-> 0, data |-> << >> ]
  ELSE IF records = << >>
    THEN [ kind |-> "load", status |-> 200, gets |-> 1, data |-> << >> ]
  ELSE IF draft = "load.js"
    THEN [ kind |-> "load", status |-> 200, gets |-> 2, data |-> records ]
  ELSE IF draft = "part_000/1"
    THEN [ kind |-> "load", status |-> 200, gets |-> 1, data |-> records ]
  ELSE IF storedThrows
    THEN [ kind |-> "load", status |-> 500, gets |-> 1, data |-> << >> ]
  ELSE [ kind |-> "load", status |-> 200, gets |-> 1,
         data |-> << sanitizeState(records[1]) >> ]

\* an admin read.  load.js also keeps a simulation of its own under TEMP_KEY,
\* which it leaves alone while the clock is within the first tick of 5 s; its
\* rows here are mappings of texts
LoadHttp(draft, pass) ==
  /\ draft = "load.js" => (now < TEMP_TICK_MS /\ ~storedThrows)
  /\ resp' = loadAnswer(draft, pass)
  /\ UNCHANGED << processEnv, tickState, calls, variant, now, records, tempState, saves, reqs >>

\* the public handler when sanitizeState raises: the catch answers 500
PublicReadFails ==
  /\ storedThrows
  /\ resp' = [ kind |-> "public", status |-> 500, items |-> << >>, server_time |-> now ]
  /\ UNCHANGED << processEnv, tickState, calls, variant, now, records, tempState, saves, reqs >>

NextAdmin ==
  \/ \E method \in Methods, pass \in PassHeaders, text \in BodyTexts :
       SaveHttp(method, pass, text)
  \/ \E draft \in LoadDrafts, pass \in PassHeaders : LoadHttp(draft, pass)
  \/ PublicRead
  \/ PublicReadFails

SpecAdmin == Init /\ [][NextAdmin]_vars


\* ---------------------------------------- deployments that lack a setting
\* The guarded handlers under every configuration: the secret set or unset,
\* REDIS_URL set or unset.
Envs == [ secret : { "", Configured.secret }, redisUrl : BOOLEAN ]

InitConfig ==
  /\ variant = "public"
  /\ now = 0
  /\ records = << >>
  /\ tempState = << >>
  /\ resp = [ kind |-> "none" ]
  /\ saves = 0
  /\ reqs = [ q \in Reqs |-> idleReq ]
  /\ calls = noCalls
  /\ processEnv \in Envs
  /\ tickState = << >>

NextConfig ==
  \/ \E method \in Methods, pass \in PassHeaders : AuthHttp(method, pass)
  \/ \E method \in Methods, pass \in PassHeaders, text \in BodyTexts :
       SaveHttp(method, pass, text)
  \/ \E method \in Methods, pass \in PassHeaders, text \in BodyTexts :
       SaveHttpFirst(method, pass, text)
  \/ \E draft \in LoadDrafts, pass \in PassHeaders : LoadHttp(draft, pass)

SpecConfig == InitConfig /\ [][NextConfig]_vars


\* ------------------------------------ public.js with requests in flight
\* The handler of public.js runs as one request per call; between its awaits
\* (r.get, r.hget, r.hset) other requests, admin writes and the clock move on.
\* Each request holds what it is about to write and its answer (resp is the
\* answer of the latest admin write only).

\* the only tank of the record set, when it is visible
shownRow(cleaned) ==
  IF cleaned # << >> /\ F1 \in DOMAIN cleaned /\ cleaned[F1].show = TRUE
  THEN << cleaned[F1] >> ELSE << >>

\* computeTempForTank of public.js reaches getTempState for this row at nowMs
reachesHget(row, nowMs) ==
  isFinite(endMsOf(row)) /\ nowMs >= coolStartOf(row)

\* a request that has answered: the time and the record it worked on, and the
\* temp of its answer (NaN when the answer has no item)
doneReq(nowMs, ver, rows, temp) ==
  [ pc |-> "done", bucket |-> nowMs \div TEMP_BUCKET_MS("public"), ver |-> ver,
    cooling |-> IF rows = << >> THEN FALSE
                ELSE /\ reachesHget(rows[1], nowMs)
                     /\ nowMs < endMsOf(rows[1]),
    temp |-> temp ]

\* the rows written while requests are in flight: status auto, no start (the
\* tank is cooling from the first instant), an end that parses
RowsConc == { row \in Rows : row.status = "auto" /\ row.start = "" /\ row.end # "" }

SaveConc == SaveFrom(RowsConc)

InitConc ==
  /\ variant = "public"
  /\ now = 0
  /\ records = << >>
  /\ tempState = << >>
  /\ resp = [ kind |-> "none" ]
  /\ saves = 0
  /\ processEnv = Configured
  /\ tickState = << >>
  /\ reqs = [ q \in Reqs |-> idleReq ]
  /\ calls = noCalls

\* A request arrives (q is free: it never ran, or its last request has
\* answered).  const val = await r.get(KEY); const nowMs = Date.now(); ...
\* let st = await getTempState(r, id); ... up to setTempState, or to the
\* answer when the state is left alone.  The get and the hget are taken
\* together, which is one of the schedules the program allows; what other
\* requests interleave with is the gap between the hget and the hset.
ReqGet(q) ==
  /\ reqs[q].pc \in { "idle", "done" }
  /\ \E rows \in { shownRow(cleanedOf(records)) } :
       IF rows = << >>
       THEN reqs' = [ reqs EXCEPT ![q] = doneReq(now, saves, rows, NaN) ]
       ELSE \E res \in { computeTempForTank(F1, rows[1], now, getTempState(F1)) } :
              IF res.puts # << >>
              THEN reqs' = [ reqs EXCEPT
                               ![q] = [ pc |-> "hset", put |-> res.puts[1],
                                        answer |-> doneReq(now, saves, rows,
                                                           res.tempText) ] ]
              ELSE reqs' = [ reqs EXCEPT
                               ![q] = doneReq(now, saves, rows, res.tempText) ]
  /\ UNCHANGED << processEnv, tickState, calls, variant, now, records, tempState, resp, saves >>

\* await setTempState(r, id, st); return {tempText, ...}; the answer is sent
ReqHset(q) ==
  /\ reqs[q].pc = "hset"
  /\ tempState' = [ id \in (DOMAIN tempState) \cup { F1 } |->
                      IF id = F1 THEN reqs[q].put ELSE tempState[id] ]
  /\ reqs' = [ reqs EXCEPT ![q] = reqs[q].answer ]
  /\ UNCHANGED << processEnv, tickState, calls, variant, now, records, resp, saves >>

NextConc ==
  \/ Tick
  \/ SaveConc
  \/ \E q \in Reqs : ReqGet(q)
  \/ \E q \in Reqs : ReqHset(q)

SpecConc == InitConc /\ [][NextConc]_vars


\* ------------------------- public.js: a request that lists several tanks
\* The handler reads KEY once, then awaits computeTempForTank for one entry
\* after the other; admin writes and other requests run between these awaits.
\* (The hget and the hset of one entry are taken together here: what is
\* followed is the record set each item comes from.)

\* a row of a record set: shown, cooling from the first instant, named beer
tornRow(beer) ==
  Obj(<< << "show", Bool(TRUE) >>, << "beer", Str(beer) >>,
         << "end", Str("1970-01-01T00:02:00Z") >> >>)

\* the record sets an operator writes: each names all its beers alike
TornPayloads ==
  { Obj(<< << F1, tornRow("A") >>, << F2, tornRow("A") >> >>),
    Obj(<< << F1, tornRow("B") >>, << F2, tornRow("B") >> >>),
    Obj(<< << F2, tornRow("C") >> >>) }

\* save.js: an authorized POST of payload
SaveOf(payload) ==
  /\ saves < MaxSaves
  /\ saves' = saves + 1
  /\ records' = << payload >>
  /\ resp' = [ kind |-> "save", status |-> 200 ]
  /\ UNCHANGED << processEnv, tickState, calls, variant, now, tempState, reqs >>

SaveTorn == \E payload \in TornPayloads : SaveOf(payload)

\* the row a request computes the item of id from, were it read again from
\* the store at that moment
rowForItemFresh(q, id) ==
  IF id \in DOMAIN cleanedOf(records) THEN cleanedOf(records)[id] ELSE reqs[q].cleaned[id]

\* the row a request computes the item of id from: that of its own cleaned
rowForItem(q, id) == reqs[q].cleaned[id]

\* const val = await r.get(KEY); ... const entries = ...; an answer at once
\* when there is nothing to list
ReqList(q) ==
  /\ reqs[q].pc \in { "idle", "answered" }
  /\ \E cleaned \in { cleanedOf(records) } :
       \E entries \in { entriesOf(cleaned) } :
         reqs' = [ reqs EXCEPT
                     ![q] = [ pc |-> IF entries = << >> THEN "answered" ELSE "items",
                              nowMs |-> now, cleaned |-> cleaned, entries |-> entries,
                              items |-> << >> ] ]
  /\ UNCHANGED << processEnv, tickState, calls, variant, now, records, tempState, resp, saves >>

\* const tempRes = await computeTempForTank(r, item.id, item, nowMs);
\* items.push({...}); and the answer after the last entry
ReqItem(q) ==
  /\ reqs[q].pc = "items"
  /\ \E id \in { reqs[q].entries[Len(reqs[q].items) + 1] } :
       \E res \in { computeTempForTank(id, rowForItem(q, id), reqs[q].nowMs,
                                       getTempState(id)) } :
         /\ tempState' = IF res.puts = << >> THEN tempState
                         ELSE [ k \in (DOMAIN tempState) \cup { id } |->
                                  IF k = id THEN res.puts[Len(res.puts)] ELSE tempState[k] ]
         /\ reqs' = [ reqs EXCEPT
                        ![q].items = Append(reqs[q].items,
                                            [ id |-> id, beer |-> rowForItem(q, id).beer,
                                              temp |-> res.tempText ]),
                        ![q].pc = IF Len(reqs[q].items) + 1 = Len(reqs[q].entries)
                                  THEN "answered" ELSE "items" ]
  /\ UNCHANGED << processEnv, tickState, calls, variant, now, records, resp, saves >>

NextTorn ==
  \/ SaveTorn
  \/ \E q \in Reqs : ReqList(q)
  \/ \E q \in Reqs : ReqItem(q)

SpecTorn == InitConc /\ [][NextTorn]_vars


\* ------------------------------------- _schema.js: sanitizeState on its own
\* sanitizeState applied once to a value as JSON.parse may give it.

\* the longest mapping written key by key, and how far the long mappings go
\* beyond the cap
MaxKeys == 2
ExtraTanks == 2

\* keys: "F1", "f2", "f1", "F", "F1a", "1F"
SanKeys == { F1, << 102, 50 >>, << 102, 49 >>, << 70 >>, << 70, 49, 97 >>, << 49, 70 >> }

\* row values: null, primitives, a row, a row whose beer cannot be a string
SanRows == { Null, Num(7), Str("x"), Bool(TRUE), PlainRow, OddRow }

\* values that are no mapping
SanShapes ==
  { Undefined, Null, Bool(TRUE), Bool(FALSE), Num(0), Num(5), Str(""), Str("F1"),
    Arr(<< >>), Arr(<< PlainRow >>), Arr(<< Num(1), OddRow >>) }

\* mappings of up to MaxKeys distinct keys, in every order
ShortMappings ==
  { Obj(e) : e \in { e \in UNION { [ 1 .. n -> SanKeys \X SanRows ] : n \in 0 .. MaxKeys } :
                       \A i, j \in 1 .. Len(e) : i # j => e[i][1] # e[j][1] } }

\* "F" followed by the decimal digits of n
tankKey(n) == << 70 >> \o Decimal(n)

\* a mapping of n tanks behind a key "x": F1 .. Fn going up, Fn .. F1 going down
longMapping(n, order) ==
  Obj([ i \in 1 .. n + 1 |->
          IF i = 1 THEN << << 120 >>, Null >>
          ELSE << tankKey(IF order = "up" THEN i - 1 ELSE n - i + 2), Null >> ])

LongMappings ==
  { longMapping(n, order) : n \in (MAX_TANKS - ExtraTanks) .. (MAX_TANKS + ExtraTanks),
                            order \in { "up", "down" } }

SanInputs == SanShapes \cup ShortMappings \cup LongMappings

InitSanitize ==
  /\ variant \in Variants
  /\ now = 0
  /\ records = << >>
  /\ tempState = << >>
  /\ resp = [ kind |-> "none" ]
  /\ saves = 0
  /\ processEnv = Configured
  /\ tickState = << >>
  /\ reqs = [ q \in Reqs |-> idleReq ]
  /\ \E obj \in SanInputs :
       calls = [ first |-> [ fn |-> "sanitizeState", obj |-> obj ],
                 second |-> [ fn |-> "none" ] ]

\* sanitizeState(obj): it returns out, or it raises
CallSanitize ==
  /\ calls.first.fn = "sanitizeState"
  /\ calls.second.fn = "none"
  /\ calls' = [ calls EXCEPT
                  !.second = IF sanitizeThrows(calls.first.obj) THEN [ fn |-> "threw" ]
                             ELSE [ fn |-> "returned",
                                    out |-> sanitizeState(calls.first.obj) ] ]
  /\ UNCHANGED << processEnv, tickState, variant, now, records, tempState, resp, saves, reqs >>

SpecSanitize == InitSanitize /\ [][CallSanitize]_vars


\* ------------------------------- public.js: record sets of several tanks
\* The public view of record sets that hold hidden and shown tanks, written
\* in any order of their keys.

\* the most tanks of a record set written here
MaxViewTanks == 2

\* keys "F2", "F10", "f1"
ViewKeys == { F2, F10, << 102, 49 >> }

\* rows: hidden; shown with a beer name only; shown with style and ABV but
\* without a beer name
ViewRows ==
  { Obj(<< << "show", Bool(FALSE) >>, << "beer", Str("Stout") >> >>),
    Obj(<< << "show", Bool(TRUE) >>, << "beer", Str("IPA") >> >>),
    Obj(<< << "show", Bool(TRUE) >>, << "style", Str("Ale") >>, << "abv", Str("5.2") >> >>) }

ViewPayloads ==
  { Obj(e) : e \in { e \in UNION { [ 1 .. n -> ViewKeys \X ViewRows ] :
                                     n \in 0 .. MaxViewTanks } :
                       \A i, j \in 1 .. Len(e) : i # j => e[i][1] # e[j][1] } }

\* save.js: an authorized POST of one of the payloads
SaveView ==
  /\ \E payload \in ViewPayloads : records' = << payload >>
  /\ resp' = [ kind |-> "save", status |-> 200 ]
  /\ UNCHANGED << processEnv, tickState, calls, variant, now, tempState, saves, reqs >>

NextView == SaveView \/ PublicRead

SpecView == InitConc /\ [][NextView]_vars


\* ------------------------------------------- public.js: calcProgress alone
\* p is held as the fraction p100 / (e - s); Math.round of a fraction n / d
\* with d > 0 is the floor of (2n + d) / 2d.

\* calcProgress without its clamp(p, 0, 100)
calcProgressUnclamped(startStr, endStr, nowMs) ==
  LET s == dateMs(startStr)
      e == dateMs(endStr)
  IN IF ~isFinite(s) \/ ~isFinite(e) \/ e <= s THEN 0
     ELSE ((2 * ((nowMs - s) * 100)) + (e - s)) \div (2 * (e - s))

calcProgress(startStr, endStr, nowMs) ==
  LET s == dateMs(startStr)
      e == dateMs(endStr)
  IN IF ~isFinite(s) \/ ~isFinite(e) \/ e <= s THEN 0
     ELSE LET p100 == clamp((nowMs - s) * 100, 0, 100 * (e - s))
          IN ((2 * p100) + (e - s)) \div (2 * (e - s))

\* the dates of a record and the times of the calls, a quarter of a second
\* apart
ProgressDates ==
  { "", "soon", "1970-01-01T00:00:01Z", "1970-01-01T00:00:02Z", "1970-01-01T00:00:03.500Z" }
MaxProgressSteps == 16
ProgressNows == { k * 250 : k \in 0 .. MaxProgressSteps }

InitProgress ==
  /\ variant = "public"
  /\ now = 0
  /\ records = << >>
  /\ tempState = << >>
  /\ resp = [ kind |-> "none" ]
  /\ saves = 0
  /\ processEnv = Configured
  /\ tickState = << >>
  /\ reqs = [ q \in Reqs |-> idleReq ]
  /\ \E sd \in ProgressDates, ed \in ProgressDates :
       calls = [ first |-> [ fn |-> "record", start |-> sd, end |-> ed ],
                 second |-> [ fn |-> "none" ] ]

\* calcProgress(item.start, item.end, nowMs), once and then once more at a
\* time not before; before keeps the time and the value of the first call
CallProgress ==
  /\ calls.first.fn = "record"
  /\ IF calls.second.fn = "none" THEN TRUE ELSE calls.second.before = << >>
  /\ \E n \in ProgressNows :
       /\ IF calls.second.fn = "none" THEN TRUE ELSE n >= calls.second.nowMs
       /\ calls' = [ calls EXCEPT
                       !.second =
                         [ fn |-> "calcProgress", nowMs |-> n,
                           ret |-> calcProgress(calls.first.start, calls.first.end, n),
                           before |-> IF calls.second.fn = "none" THEN << >>
                                      ELSE << calls.second.nowMs, calls.second.ret >> ] ]
  /\ UNCHANGED << processEnv, tickState, variant, now, records, tempState, resp, saves, reqs >>

SpecProgress == InitProgress /\ [][CallProgress]_vars


\* ------------------------------------------------- what the claims speak of
\* the sanitized record set a public read works on in the current state
cleanedNow == cleanedOf(records)

\* tank id has a visible record with an end that parses
Tracked(id) ==
  /\ id \in DOMAIN cleanedNow
  /\ cleanedNow[id].show = TRUE
  /\ cleanedNow[id].end # ""

\* the quantities of the specification, written out from the record
specStart(id) == dateMs(cleanedNow[id].start)
specEnd(id) == dateMs(cleanedNow[id].end)
specCoolStart(id) ==
  IF cleanedNow[id].start = "" THEN specEnd(id) - 864000000
  ELSE IF specEnd(id) - 864000000 > specStart(id) THEN specEnd(id) - 864000000
  ELSE specStart(id)
specSetpoint(id) ==
  IF cleanedNow[id].temp = "" THEN setpointTable[id][cleanedNow[id].start]
  ELSE IF cleanedNow[id].temp = "30" THEN 19900000
  ELSE 18200000
specFinal(id) == finalTable[id][cleanedNow[id].end]
specBucket(t) == t \div (IF variant = "public" THEN 60000 ELSE 1000)

\* the item of tank id in a public answer
itemOf(r, id) == r.items[CHOOSE i \in 1 .. Len(r.items) : r.items[i].id = id]
hasItem(r, id) == r.kind = "public" /\ \E i \in 1 .. Len(r.items) : r.items[i].id = id

Abs(x) == IF x < 0 THEN 0 - x ELSE x

\* C1.  Bounded step: a read of a tank in the cooling phase
\* (coolStart <= now <= end) that falls in a new bucket stores a cur that
\* differs from the stored cur by at most 0.3 degrees.
C1_BoundedStep ==
  [][ \A id \in TankIds :
        ( /\ PublicRead
          /\ Tracked(id)
          /\ specCoolStart(id) <= now /\ now <= specEnd(id)
          /\ id \in DOMAIN tempState
          /\ tempState[id].lastBucket # specBucket(now) )
        => Abs(tempState'[id].cur - tempState[id].cur) <= 300000 ]_vars


\* a public read of tank id has just been answered, at the current time and
\* from the current record, while the tank was in the cooling phase
ReadInCooling(id) ==
  /\ Tracked(id)
  /\ hasItem(resp, id)
  /\ resp.server_time = now
  /\ specCoolStart(id) <= now /\ now <= specEnd(id)
  /\ id \in DOMAIN tempState

C3_TerminalLock ==
  [][ \A id \in TankIds :
        ( /\ PublicRead
          /\ Tracked(id)
          /\ now > specEnd(id)
          /\ hasItem(resp, id)
          /\ resp.server_time > specEnd(id)
          /\ id \in DOMAIN tempState )
        => /\ tempState'[id].cur = specFinal(id)
           /\ tempState'[id].cur <= tempState[id].cur
           /\ itemOf(resp', id).temp <= itemOf(resp, id).temp ]_vars

\* C4.  Idempotence within a bucket: a public read that follows a public read
\* of the same bucket, with no admin write between them, returns the same
\* temperature for every tank.
C4_SameBucketSameTemp ==
  [][ ( /\ PublicRead
        /\ resp.kind = "public"
        /\ specBucket(resp.server_time) = specBucket(now) )
      => \A id \in TankIds :
           hasItem(resp, id) => itemOf(resp', id).temp = itemOf(resp, id).temp ]_vars

\* C5.  Concurrent reads agree: public requests for the same tank that read
\* the same record during cooling (before end) at times of the same bucket
\* return the same temperature, whatever the interleaving of their hget and
\* hset steps, and once no request is in flight (all of them having read the
\* current record during cooling, before end) the persisted cur of that
\* bucket is the temperature they returned.
C5_ConcurrentReadsAgree ==
  /\ \A q1, q2 \in Reqs :
       ( /\ reqs[q1].pc = "done" /\ reqs[q2].pc = "done"
         /\ reqs[q1].cooling /\ reqs[q2].cooling
         /\ reqs[q1].ver = reqs[q2].ver
         /\ reqs[q1].bucket = reqs[q2].bucket )
       => reqs[q1].temp = reqs[q2].temp
  /\ \A q \in Reqs :
       ( /\ \A p \in Reqs : reqs[p].pc = "idle"
                             \/ ( /\ reqs[p].pc = "done"
                                  /\ reqs[p].ver = saves
                                  /\ reqs[p].cooling )
         /\ reqs[q].pc = "done"
         /\ F1 \in DOMAIN tempState
         /\ tempState[F1].lastBucket = reqs[q].bucket )
       => fmtTemp(tempState[F1].cur) = reqs[q].temp

\* C6.  Reset on input change: the first public read after an edit that
\* changed the setpoint or the finalTemp the stored state was derived from
\* resets the persisted cur to the new setpoint and returns it (tank in the
\* cooling phase, before end).
C6_ResetOnInputChange ==
  [][ \A id \in TankIds :
        ( /\ PublicRead
          /\ resp.kind = "save"
          /\ Tracked(id)
          /\ specCoolStart(id) <= now /\ now < specEnd(id)
          /\ id \in DOMAIN tempState
          /\ \/ tempState[id].setpoint # specSetpoint(id)
             \/ tempState[id].finalT # specFinal(id) )
        => /\ tempState'[id].cur = specSetpoint(id)
           /\ itemOf(resp', id).temp = specSetpoint(id) \div 100000 ]_vars

\* C7.  A successful save resets the temperature state: the public read that
\* follows it finds, for every written tank in the cooling phase, a cur equal
\* to the setpoint, so it stores a cur within one step (0.3 down, 0.1 up) of
\* the setpoint.
C7_SaveResetsTempState ==
  [][ \A id \in TankIds :
        ( /\ PublicRead
          /\ resp.kind = "save" /\ resp.status = 200
          /\ Tracked(id)
          /\ specCoolStart(id) <= now /\ now < specEnd(id) )
        => /\ id \in DOMAIN tempState'
           /\ specSetpoint(id) - 300000 <= tempState'[id].cur
           /\ tempState'[id].cur <= specSetpoint(id) + 100000 ]_vars

\* C8.  Per-day rate ceiling of part_001: a read during cooling (before end)
\* that moves the state from bucket b to bucket b' lowers cur by at most
\* 2.0 degrees/day and raises it by at most 0.4 degrees/day over the b' - b
\* buckets that passed (24 and 5 micro-degrees per 1 s bucket, rounded up).
C8_RateCeiling ==
  [][ \A id \in TankIds :
        ( /\ PublicRead
          /\ variant = "part_001"
          /\ Tracked(id)
          /\ specCoolStart(id) <= now /\ now < specEnd(id)
          /\ id \in DOMAIN tempState
          /\ tempState[id].lastBucket < specBucket(now) )
        => /\ tempState[id].cur - tempState'[id].cur
                <= 24 * (specBucket(now) - tempState[id].lastBucket)
           /\ tempState'[id].cur - tempState[id].cur
                <= 5 * (specBucket(now) - tempState[id].lastBucket) ]_vars

\* the items of the latest public answer are about the current record
\* (a save replaces resp), at time resp.server_time
Answered(id) == hasItem(resp, id) /\ id \in DOMAIN cleanedNow

C10_OperatorOverride ==
  \A id \in TankIds :
    (Answered(id) /\ cleanedNow[id].status \in { "fermenting", "cooling", "ready" })
    => itemOf(resp, id).status = cleanedNow[id].status

\* C11.  Bad dates degrade, never abort: a public read returns every visible
\* tank of the record set, and for a tank whose end does not parse it reports
\* fermenting with the setpoint as temperature and leaves the temperature
\* state of that tank as it was.
C11_BadDatesDegrade ==
  [][ PublicRead
      => LET cleaned == cleanedNow
         IN \A id \in DOMAIN cleaned :
              cleaned[id].show = TRUE
              => /\ hasItem(resp', id)
                 /\ cleaned[id].end \in { "", "soon" }
                    => /\ itemOf(resp', id).status = "fermenting"
                       /\ itemOf(resp', id).temp = specSetpoint(id) \div 100000
                       /\ (id \in DOMAIN tempState') = (id \in DOMAIN tempState)
                       /\ id \in DOMAIN tempState => tempState'[id] = tempState[id] ]_vars

\* C11, witness: a read has answered for F1, whose end does not parse and
\* which has no temperature state, and for F2, which has one
C11_Witness ==
  /\ hasItem(resp, F1) /\ hasItem(resp, F2)
  /\ resp.server_time = now
  /\ F1 \in DOMAIN cleanedNow /\ cleanedNow[F1].end = "soon"
  /\ itemOf(resp, F1).status = "fermenting"
  /\ F1 \notin DOMAIN tempState
  /\ F2 \in DOMAIN tempState

\* C12.  First cooling read is inside the band: for a tank with no manual
\* temp and end = start + 20 days, the public read at start + 12 days that
\* follows a public read at start returns a temperature strictly between
\* finalTemp and setpoint, and the read at start + 21 days that follows it
\* returns exactly finalTemp.
C12_FirstCoolingRead ==
  [][ ( /\ PublicRead
        /\ Tracked(F1)
        /\ cleanedNow[F1].temp = ""
        /\ cleanedNow[F1].start # ""
        /\ specEnd(F1) = specStart(F1) + (20 * 86400000)
        /\ hasItem(resp, F1) )
      => /\ ( /\ resp.server_time = specStart(F1)
              /\ now = specStart(F1) + (12 * 86400000) )
            => /\ specFinal(F1) \div 100000 < itemOf(resp', F1).temp
               /\ itemOf(resp', F1).temp < specSetpoint(F1) \div 100000
         /\ ( /\ resp.server_time = specStart(F1) + (12 * 86400000)
              /\ now = specStart(F1) + (21 * 86400000) )
            => itemOf(resp', F1).temp = specFinal(F1) \div 100000 ]_vars

C14_TargetRanges ==
  calls.second.fn = "targets"
  => /\ 18200000 <= calls.second.setpoint /\ calls.second.setpoint <= 19900000
     /\ calls.first.row.temp \in { "", "abc" } => calls.second.setpoint % 100000 = 0
     /\ 4000000 <= calls.second.finalT /\ calls.second.finalT <= 5000000

\* C14, witness: a manual temp above the range was clamped to 19.9
C14_Witness ==
  /\ calls.second.fn = "targets"
  /\ calls.first.row.temp = "30"
  /\ calls.second.setpoint = 19900000

\* C15.  Admin read requires the shared secret: an admin read whose header
\* is missing or wrong is answered 401, without any read of the store and
\* without any of the stored record set in the body.
C15_AdminReadGuarded ==
  [][ \A draft \in LoadDrafts, pass \in PassHeaders :
        (LoadHttp(draft, pass) /\ pass # "s3cret")
        => /\ resp'.status = 401
           /\ resp'.gets = 0
           /\ resp'.data = << >> ]_vars

\* C16.  Rejected writes change nothing: a save answered 401, 400 or 405
\* leaves the stored record set as it was, and an authorized POST whose body
\* is not a JSON mapping (null, an array, a number, a string, or no JSON at
\* all) is answered 400.
C16_RejectedWrites ==
  [][ \A method \in Methods, pass \in PassHeaders, text \in BodyTexts :
        SaveHttp(method, pass, text)
        => /\ resp'.status \in { 401, 400, 405 } => records' = records
           /\ ( /\ method = "POST"
                /\ pass = "s3cret"
                /\ text \in { "{bad", "null", "[1]", "5", "\"x\"" } )
              => resp'.status = 400 /\ records' = records ]_vars

\* the items of an answer are those of the record set payload: one item for
\* each of its tanks, with the beer that payload gives the tank
itemsFrom(items, payload) ==
  LET c == sanitizeState(payload)
  IN /\ { items[i].id : i \in 1 .. Len(items) } = DOMAIN c
     /\ \A i \in 1 .. Len(items) : items[i].beer = c[items[i].id].beer

\* C17.  Full replacement, no torn read: a successful save leaves exactly the
\* written payload as the stored record set (none of the tanks of the old
\* set survives), and the items of every answer of a public read, whatever
\* saves ran during it, all come from one single record set that was written
\* (or from the empty store).
C17_ReplaceNoTornRead ==
  /\ [][ \A payload \in TornPayloads :
           SaveOf(payload)
           => /\ cleanedOf(records') = sanitizeState(payload)
              /\ DOMAIN cleanedOf(records') = DOMAIN sanitizeState(payload) ]_vars
  /\ [](\A q \in Reqs :
          reqs[q].pc = "answered"
          => \/ reqs[q].items = << >>
             \/ \E payload \in TornPayloads : itemsFrom(reqs[q].items, payload))

\* C17, witness: a request has answered with both tanks of the first record
\* set although a save replaced it by another one while the request was
\* between its two items
C17_Witness ==
  \E q \in Reqs :
    /\ reqs[q].pc = "answered"
    /\ Len(reqs[q].items) = 2
    /\ reqs[q].items[1].beer = "A" /\ reqs[q].items[2].beer = "A"
    /\ records # << >>
    /\ F1 \notin DOMAIN cleanedOf(records)

\* the keys of the value sanitizeState was called with, in iteration order
inputKeys == [ i \in 1 .. Len(inputEntries(calls.first.obj)) |->
                 inputEntries(calls.first.obj)[i][1] ]

\* those of them that match ^F\d+$ without regard to case
acceptedKeys == SelectSeq(inputKeys, isTankKey)

sanitizeReturned == calls.first.fn = "sanitizeState" /\ calls.second.fn = "returned"

\* C18.  Sanitizer key filter: no input key that fails ^F\d+$ (case ignored)
\* is a key of the output of sanitizeState, and every key of the output is the
\* upper-cased form of an input key that matches.
C18_KeyFilter ==
  sanitizeReturned
  => /\ \A i \in 1 .. Len(inputKeys) :
          ~isTankKey(inputKeys[i]) => inputKeys[i] \notin DOMAIN calls.second.out
     /\ \A k \in DOMAIN calls.second.out :
          /\ k = toUpperCase(k)
          /\ \E i \in 1 .. Len(inputKeys) :
               isTankKey(inputKeys[i]) /\ k = toUpperCase(inputKeys[i])

\* C18, witness: a mapping with the key "f2" and a key that fails the pattern
\* came back with the key "F2" only
C18_Witness ==
  /\ sanitizeReturned
  /\ \E i, j \in 1 .. Len(inputKeys) :
       inputKeys[i] = << 102, 50 >> /\ ~isTankKey(inputKeys[j])
  /\ DOMAIN calls.second.out = { F2 }

\* C19.  Sanitizer cap: the output of sanitizeState holds the first 300
\* matching keys of the input in iteration order (all of them when there are
\* fewer) and nothing that comes after the 300th; it never has more than 300
\* keys.
C19_Cap ==
  sanitizeReturned
  => /\ DOMAIN calls.second.out
          = { toUpperCase(acceptedKeys[j]) :
                j \in 1 .. Min(Len(acceptedKeys), MAX_TANKS) }
     /\ Cardinality(DOMAIN calls.second.out) <= MAX_TANKS

\* C19, witness: of more than 300 matching keys, the first 300 came back and
\* the last one did not, a key that fails the pattern not being counted
C19_Witness ==
  /\ sanitizeReturned
  /\ Len(acceptedKeys) > MAX_TANKS
  /\ Len(inputKeys) > Len(acceptedKeys)
  /\ Cardinality(DOMAIN calls.second.out) = MAX_TANKS
  /\ acceptedKeys[MAX_TANKS] \in DOMAIN calls.second.out
  /\ acceptedKeys[Len(acceptedKeys)] \notin DOMAIN calls.second.out

\* the record normalizeRow gives for a row without any field
defaultedRow ==
  [ show |-> FALSE, beer |-> "", style |-> "", abv |-> "", ibu |-> "",
    capacity |-> "150L", temp |-> "", start |-> "", end |-> "", status |-> "auto",
    limited |-> FALSE ]

\* the cases the sanitizer is said to absorb: a value that is no mapping gives
\* the empty mapping; in a mapping, a row that is null or a primitive gives a
\* fully defaulted record
sanitizeAbsorbs ==
  sanitizeReturned
  => /\ calls.first.obj.t # "object" => calls.second.out = << >>
     /\ calls.first.obj.t = "object"
        => \A k \in DOMAIN calls.second.out :
             (\A i \in 1 .. Len(inputKeys) :
                toUpperCase(inputKeys[i]) = k
                => inputEntries(calls.first.obj)[i][2].t \notin { "object", "array" })
             => calls.second.out[k] = defaultedRow

\* C20.  Sanitizer never throws: whatever value sanitizeState is called with,
\* it returns; for null, undefined, an array, a number, a string or a boolean
\* it returns the empty mapping, and for a row that is null or a primitive it
\* returns a fully defaulted record.
C20_NeverThrows ==
  /\ calls.second.fn # "threw"
  /\ sanitizeAbsorbs

\* the row as it was written for the tank that sanitizeState names id
writtenRow(id) ==
  LET e == inputEntries(records[1])
  IN e[CHOOSE i \in 1 .. Len(e) : toUpperCase(e[i][1]) = id][2]

\* C21.  Public view filter and order: the items of a public read are the
\* sanitized records with show = true and no others, each once, and they
\* come in ascending order of the tank number parsed from the id.
C21_FilterAndOrder ==
  [][ PublicRead
      => LET c == cleanedOf(records)
             items == resp'.items
         IN /\ { items[i].id : i \in 1 .. Len(items) }
                 = { id \in DOMAIN c : c[id].show = TRUE }
            /\ \A i, j \in 1 .. Len(items) : items[i].id = items[j].id => i = j
            /\ \A i \in 1 .. Len(items) : items[i].no = tankNoFromId(items[i].id)
            /\ \A i, j \in 1 .. Len(items) : i < j => items[i].no <= items[j].no ]_vars

\* C21, witness: a record set written as F10 (shown) then F2 (shown) has been
\* read as F2 then F10
C21_Witness ==
  /\ records # << >>
  /\ Len(inputEntries(records[1])) = 2
  /\ inputEntries(records[1])[1][1] = F10
  /\ inputEntries(records[1])[2][1] = F2
  /\ resp.kind = "public"
  /\ Len(resp.items) = 2
  /\ resp.items[1].id = F2 /\ resp.items[1].no = 2
  /\ resp.items[2].id = F10 /\ resp.items[2].no = 10

\* C22.  Defaults in the public view: a tank written with show = true and a
\* beer name only is read as one item with that beer name, style "--" and
\* ABV "--"; a shown tank written without a beer name is read with the
\* fallback name.
C22_DefaultsInView ==
  [][ PublicRead
      => \A i \in 1 .. Len(resp'.items) :
           LET item == resp'.items[i]
               row == writtenRow(item.id)
           IN /\ prop(row, "beer").t = "string" => item.beer = prop(row, "beer").s
              /\ prop(row, "beer").t = "undefined" => item.beer = UNNAMED
              /\ prop(row, "style").t = "undefined" => item.style = "--"
              /\ prop(row, "abv").t = "undefined" => item.abv = "--" ]_vars

\* C23.  Progress percentage: calcProgress returns an integer in 0..100; it
\* is 0 when start or end is invalid or end <= start; otherwise it is the
\* integer nearest to clamp((now - start) / (end - start) * 100, 0, 100)
\* (halves go up); and for one record it does not decrease from a call to a
\* later one.
C23_Progress ==
  calls.second.fn = "calcProgress"
  => LET s == dateMs(calls.first.start)
         e == dateMs(calls.first.end)
         p == calls.second.ret
         x == IF calls.second.nowMs <= s THEN 0
              ELSE IF calls.second.nowMs >= e THEN e - s
              ELSE calls.second.nowMs - s
     IN /\ p \in 0 .. 100
        /\ (calls.first.start \in { "", "soon" } \/ calls.first.end \in { "", "soon" }
            \/ e <= s) => p = 0
        /\ (calls.first.start \notin { "", "soon" } /\ calls.first.end \notin { "", "soon" }
            /\ e > s)
           => /\ ((2 * p) - 1) * (e - s) <= 200 * x
              /\ 200 * x < ((2 * p) + 1) * (e - s)
        /\ calls.second.before # << >> => calls.second.before[2] <= p

\* C23, witness: for a record that starts at 1 s and ends at 3.5 s, a call
\* at 2 s returned 40 and a later call at 4 s returned 100
C23_Witness ==
  /\ calls.first.fn = "record"
  /\ calls.first.start = "1970-01-01T00:00:01Z"
  /\ calls.first.end = "1970-01-01T00:00:03.500Z"
  /\ calls.second.fn = "calcProgress"
  /\ calls.second.before = << 2000, 40 >>
  /\ calls.second.nowMs = 4000
  /\ calls.second.ret = 100

\* the phases in their order; a status that is none of them is 3
phaseRank(st) ==
  CASE st = "fermenting" -> 0
    [] st = "cooling" -> 1
    [] st = "ready" -> 2
    [] OTHER -> 3

\* C24.  Phase only moves forward: the phase of a tank in the latest answer
\* of a public read (a save replaces resp, so the record is the one that was
\* read) is fermenting, cooling or ready; it is not earlier in that order
\* than the phase in the answer before it, which was given at a time not
\* after; nor than the phase any read at an earlier time reports for a
\* record with the same start, end and status, whatever its temp.
C24_PhaseForward ==
  [][ \A id \in TankIds :
        hasItem(resp', id)
        => LET rank == phaseRank(itemOf(resp', id).status)
               row == cleanedNow[id]
           IN /\ rank <= 2
              /\ hasItem(resp, id)
                 => /\ resp.server_time <= resp'.server_time
                    /\ phaseRank(itemOf(resp, id).status) <= rank
              /\ \A k \in 0 .. MaxHalfSteps, t \in TempTexts :
                   k * halfBucket <= resp'.server_time
                   => phaseRank(compute(id, [ row EXCEPT !.temp = t ],
                                        k * halfBucket, << >>).statusOut) <= rank ]_vars

\* C24, witness: a tank whose cooling starts after the first instant has
\* been read past its end and reported ready (reads before the start of
\* cooling report fermenting)
C24_Witness ==
  \E id \in TankIds :
    /\ Answered(id)
    /\ cleanedNow[id].end # ""
    /\ specCoolStart(id) > 0
    /\ resp.server_time > specEnd(id)
    /\ itemOf(resp, id).status = "ready"

\* C25.  Missing configuration is a 500: while ADMIN_WRITE_PASSWORD or
\* REDIS_URL is unset, the answer of the auth check, of the admin read and
\* of the admin write is 500 (a request refused for its method or its body
\* aside), never 401 or 200, and the stores are not written.
C25_MissingConfig ==
  [][ ( /\ processEnv.secret = "" \/ ~processEnv.redisUrl
        /\ resp'.kind \in { "auth", "load", "save" }
        /\ resp'.status \notin { 400, 405 } )
      => /\ resp'.status = 500
         /\ UNCHANGED << records, tempState, tickState >> ]_vars

\* C26.  Display bounds: in every reachable state, whatever public reads and
\* admin writes led to it, the cur persisted for a tank lies in [4.0, 19.9],
\* and so does every temperature of the latest public answer, in the
\* fermenting phase and after the end as well as during cooling.
C26_DisplayBounds ==
  /\ \A id \in DOMAIN tempState :
       FINAL_MIN <= tempState[id].cur /\ tempState[id].cur <= SETPOINT_MAX
  /\ resp.kind = "public"
     => \A i \in 1 .. Len(resp.items) :
          /\ fmtTemp(FINAL_MIN) <= resp.items[i].temp
          /\ resp.items[i].temp <= fmtTemp(SETPOINT_MAX)

\* C26, witness: after two admin writes a public read has answered with a
\* persisted cur that has come down below every setpoint
C26_Witness ==
  \E id \in DOMAIN tempState :
    /\ saves >= 2
    /\ hasItem(resp, id)
    /\ tempState[id].cur < SETPOINT_MIN
    /\ itemOf(resp, id).temp = fmtTemp(tempState[id].cur)

\* C27.  Persisted lastBucket never goes backwards: whatever the interleaving
\* of the hget and hset steps of concurrent public reads of a tank, no step
\* replaces the stored lastBucket of the tank by a smaller one.
C27_LastBucketMonotone ==
  [][ \A id \in (DOMAIN tempState) \cap (DOMAIN tempState') :
        tempState[id].lastBucket <= tempState'[id].lastBucket ]_vars


\* ------------------------------ load.js: its own simulation, 5 s per tick
\* load.js keeps one temperature per stored key under TEMP_KEY and moves each
\* by one step per tick of TEMP_TICK_MS, between TEMP_MIN and TEMP_MAX.
TEMP_MIN == 18000000
TEMP_MAX == 19900000
\* at most this many ticks are caught up by one request
MAX_CATCHUP_STEPS == 12

clampTemp(x) == Max(TEMP_MIN, Min(TEMP_MAX, x))

\* cur + d in IEEE doubles, for cur and d of one decimal: the sum is the
\* decimal sum on the side of every comparison of stepTemp that the decimal
\* sum is on, except 19.8 + 0.1 = 19.900000000000002, which is above 19.9
addDouble(cur, d) ==
  IF cur = 19800000 /\ d = TENTH THEN cur + d + 1 ELSE cur + d

\* stepTemp without the bounce and the clamp
stepTempFree(cur, id, tick) ==
  LET h == hash32(idChars(id) \o Bar \o Decimal(tick))
      step == IF h[2] % 2 = 0 THEN TENTH ELSE 2 * TENTH
      dir == IF (h[2] \div 2) % 2 = 0 THEN 1 ELSE 0 - 1
  IN round1(addDouble(cur, dir * step))

\* stepTemp(cur, id, tick): bit 0 of the hash of "id|tick" chooses the step of
\* 0.1 or 0.2, bit 1 the direction; a step over an edge is taken the other way
stepTemp(cur, id, tick) ==
  LET h == hash32(idChars(id) \o Bar \o Decimal(tick))
      step == IF h[2] % 2 = 0 THEN TENTH ELSE 2 * TENTH
      dir == IF (h[2] \div 2) % 2 = 0 THEN 1 ELSE 0 - 1
      next0 == addDouble(cur, dir * step)
      next1 == IF next0 < TEMP_MIN THEN addDouble(cur, step) ELSE next0
      next2 == IF next1 > TEMP_MAX THEN addDouble(cur, 0 - step) ELSE next1
  IN round1(clampTemp(next2))

\* parseTempNumber(row && row.temp) ?? TEMP_MIN, for a row that is null or
\* an object whose temp, if any, is a text
startTemp(row) ==
  LET v == IF truthy(row) THEN prop(row, "temp") ELSE row
      n == IF v.t = "string" THEN parseTempNumber(v.s) ELSE NoNumber
  IN round1(clampTemp(IF n = NoNumber THEN TEMP_MIN ELSE n))

\* the loop that gives every stored key without a temperature its start value
RECURSIVE initTemps(_, _, _)
initTemps(entries, i, temps) ==
  IF i > Len(entries) THEN temps
  ELSE initTemps(entries, i + 1,
                 IF entries[i][1] \in DOMAIN temps THEN temps
                 ELSE temps @@ (entries[i][1] :> startTemp(entries[i][2])))

\* the loop for (t = lastTick + 1; t <= last; t++): one step of every tank per
\* round; rounds counts the rounds taken
RECURSIVE catchUp(_, _, _)
catchUp(st, t, last) ==
  IF t > last THEN st
  ELSE catchUp([ temps |-> [ id \in DOMAIN st.temps |-> stepTemp(st.temps[id], id, t) ],
                 rounds |-> st.rounds + 1 ],
               t + 1, last)

\* the catch-up without the cap
doStepsUncapped(steps) == steps

\* Math.min(steps, MAX_CATCHUP_STEPS)
doStepsOf(steps) == Min(steps, MAX_CATCHUP_STEPS)

\* tempState as the handler holds it after reading TEMP_KEY
loadedTickState ==
  IF tickState = << >> THEN [ lastTick |-> 0, temps |-> << >> ] ELSE tickState[1]

\* Math.floor(Date.now() / TEMP_TICK_MS)
nowTickOf(nowMs) == nowMs \div TEMP_TICK_MS

\* the handler of load.js with REDIS_URL set, on a record set of rows as
\* above: no record set answers {} at once; otherwise the start values, then
\* the catch-up and the write of TEMP_KEY when the tick has moved on.  The
\* answer carries the temperatures shown and the rounds of the catch-up.
LoadTemps ==
  /\ processEnv.redisUrl
  /\ IF records = << >> THEN TRUE ELSE records[1].t = "object"
  /\ IF records = << >>
     THEN /\ resp' = [ kind |-> "load", status |-> 200, gets |-> 1, data |-> << >>,
                       rounds |-> 0, temps |-> << >> ]
          /\ UNCHANGED tickState
     ELSE LET st0 == loadedTickState
              nowTick == nowTickOf(now)
              temps1 == initTemps(records[1].entries, 1, st0.temps)
              steps == nowTick - st0.lastTick
              doSteps == doStepsOf(steps)
              st1 == catchUp([ temps |-> temps1, rounds |-> 0 ],
                             st0.lastTick + 1, st0.lastTick + doSteps)
              lastTick1 == IF steps > MAX_CATCHUP_STEPS THEN nowTick
                           ELSE st0.lastTick + doSteps
          IN IF steps > 0
             THEN /\ tickState' = << [ lastTick |-> lastTick1, temps |-> st1.temps ] >>
                  /\ resp' = [ kind |-> "load", status |-> 200, gets |-> 2,
                               data |-> records, rounds |-> st1.rounds,
                               temps |-> st1.temps ]
             ELSE /\ UNCHANGED tickState
                  /\ resp' = [ kind |-> "load", status |-> 200, gets |-> 2,
                               data |-> records, rounds |-> 0, temps |-> temps1 ]
  /\ UNCHANGED << processEnv, calls, variant, now, records, tempState, saves, reqs >>

\* the clock of this part runs up to MaxLoadTicks ticks
MaxLoadTicks == 14
\* the time between two requests: one tick, thirteen ticks (and none, when
\* two requests follow each other)
LoadJumps == { 1, 13 }

TickLoad ==
  \E k \in LoadJumps :
    /\ now + (k * TEMP_TICK_MS) <= MaxLoadTicks * TEMP_TICK_MS
    /\ now' = now + (k * TEMP_TICK_MS)
    /\ UNCHANGED << processEnv, tickState, calls, variant, records, tempState, resp,
                    saves, reqs >>

\* the rows stored for load.js: a manual temperature, none, or null
LoadRows ==
  { Obj(<< << "temp", Str("18.5") >> >>), Obj(<< << "temp", Str("30") >> >>), Null }

\* the record sets stored for load.js: no tank, F1, or F1 and F2
LoadPayloads ==
  { Obj(<< >>) }
    \cup { Obj(<< << F1, r >> >>) : r \in LoadRows }
    \cup { Obj(<< << F1, Null >>, << F2, Obj(<< << "temp", Str("18.5") >> >>) >> >>) }

\* an authorized save of one of these record sets
SaveLoad ==
  \E p \in LoadPayloads :
    /\ saves < MaxSaves
    /\ records' = << p >>
    /\ saves' = saves + 1
    /\ UNCHANGED << processEnv, tickState, calls, variant, now, tempState, resp, reqs >>

NextLoad == TickLoad \/ SaveLoad \/ LoadTemps

SpecLoad == InitConc /\ [][NextLoad]_vars

\* the temperatures a request of load.js starts its catch-up from
loadBase == initTemps(records[1].entries, 1, loadedTickState.temps)

\* C28.  The tick simulation of load.js stays in range: every temperature a
\* load request writes to its state, and every temperature it answers, lies
\* in [TEMP_MIN, TEMP_MAX] = [18.0, 19.9]; one step of stepTemp moves a
\* temperature by at most 0.2, and a catch-up of n rounds by at most n * 0.2.
C28_TickRange ==
  [][ ((resp' # resp \/ tickState' # tickState) /\ resp'.kind = "load"
         /\ records # << >>)
      => LET base == loadBase
             after == resp'.temps
             t == loadedTickState.lastTick + 1
         IN /\ tickState' # << >>
               => \A id \in DOMAIN tickState'[1].temps :
                    /\ TEMP_MIN <= tickState'[1].temps[id]
                    /\ tickState'[1].temps[id] <= TEMP_MAX
            /\ DOMAIN after = DOMAIN base
            /\ \A id \in DOMAIN after :
                 /\ TEMP_MIN <= after[id] /\ after[id] <= TEMP_MAX
                 /\ after[id] - base[id] <= resp'.rounds * 2 * TENTH
                 /\ base[id] - after[id] <= resp'.rounds * 2 * TENTH
                 /\ stepTemp(base[id], id, t) - base[id] <= 2 * TENTH
                 /\ base[id] - stepTemp(base[id], id, t) <= 2 * TENTH ]_vars

\* a request has caught up over several ticks and a tank stands at an edge
\* of the range, another request has moved a tank by one step of 0.2
C28_Witness ==
  /\ tickState # << >>
  /\ resp.kind = "load"
  /\ resp.rounds >= 2
  /\ tickState[1].lastTick >= 3
  /\ \E id \in DOMAIN tickState[1].temps :
       tickState[1].temps[id] \in { TEMP_MIN, TEMP_MAX }

\* what C29 says of a step that is a load request: behind lastTick the
\* catch-up takes min(nowTick - lastTick, 12) rounds over every tank and
\* lastTick = nowTick is written; otherwise no round and no write
catchUpAsStated ==
  LET lastTick == loadedTickState.lastTick
      nowTick == nowTickOf(now)
  IN IF nowTick > lastTick
     THEN /\ resp'.rounds = Min(nowTick - lastTick, MAX_CATCHUP_STEPS)
          /\ resp'.rounds <= MAX_CATCHUP_STEPS
          /\ tickState' # << >>
          /\ tickState'[1].lastTick = nowTick
          /\ IF records = << >> THEN TRUE
             ELSE \A i \in 1 .. Len(records[1].entries) :
                    records[1].entries[i][1] \in DOMAIN tickState'[1].temps
     ELSE /\ resp'.rounds = 0
          /\ tickState' = tickState

\* a step that is a request of load.js
isLoadStep == (resp' # resp \/ tickState' # tickState) /\ resp'.kind = "load"

\* C29 as stated.  Bounded catch-up, for every load request: a request at a
\* tick nowTick > lastTick applies min(nowTick - lastTick, 12) steps to every
\* tank and persists lastTick = nowTick; a request with nowTick <= lastTick
\* applies no step and writes no temperature state.
C29_CatchUpEveryRequest ==
  [][ isLoadStep => catchUpAsStated ]_vars

\* C29, amended.  Bounded catch-up, for a load request that finds a stored
\* record set: a request at a tick nowTick > lastTick applies
\* min(nowTick - lastTick, 12) steps to every tank, never more than 12, and
\* persists lastTick = nowTick; a request with nowTick <= lastTick applies no
\* step and writes no temperature state.
C29_CatchUp ==
  [][ (isLoadStep /\ records # << >>) => catchUpAsStated ]_vars

\* a request more than twelve ticks behind has taken twelve rounds over a
\* tank and stored the tick of its clock
C29_Witness ==
  /\ tickState # << >>
  /\ resp.kind = "load"
  /\ resp.rounds = MAX_CATCHUP_STEPS
  /\ tickState[1].lastTick = nowTickOf(now)
  /\ tickState[1].lastTick > MAX_CATCHUP_STEPS
  /\ DOMAIN tickState[1].temps # { }

====
